---- MODULE Spec2Model ----
(***************************************************************************)
(* Usage metering and credit reporting of intent-mail (Email Kit).         *)
(*                                                                         *)
(*   api/services/usage.ts        the usage ledger (table "usage")         *)
(*   api/services/apiKey.ts       the API keys (table "api_keys")          *)
(*   api/libs/config.ts           pricing, PaymentKit adapter, scheduler,  *)
(*                                hybridAuth, requirePermission, rateLimit *)
(*   api/routes/v1/send.ts        the send handlers that record usage      *)
(*   api/routes/v1/usage.ts       the usage totals and the history listing *)
(*   api/middlewares/creditCheck  the credit gate in front of the handlers *)
(*                                                                         *)
(* Ten specifications share the variables:                                 *)
(*   SpecLedger  the ledger functions called by concurrent callers         *)
(*   SpecSend    the requests of /api/v1/send: auth, credit gate, handlers *)
(*   SpecUsage   the requests of /api/v1/usage beside the ledger           *)
(*   SpecGateway initPayment and the exported functions of the adapter     *)
(*   SpecPricing calculateEmailCredits beside the ledger and initPayment   *)
(*   SpecCycle   reportUserUsage run owner by owner, beside send requests  *)
(*   Spec        the server: start-up, timer ticks, send requests          *)
(*   SpecTimer   startUsageReporting and stopUsageReporting, any caller    *)
(*   SpecRate    the rate limit middleware and the clock                   *)
(*   SpecKeys    the API key service called by concurrent callers          *)
(*                                                                         *)
(* Credits are counted in micro-credits (1 credit = 1000000).  An event's  *)
(* id is its position in the table; positions follow creation order, so    *)
(* "ORDER BY createdAt ASC" is ascending id.                               *)
(***************************************************************************)
EXTENDS Integers, Sequences, FiniteSets, Bags, TLC

VARIABLES
    usage,          \* the rows of table "usage", in creation order
    task,           \* the asynchronous calls in flight, one record per slot
    holders,        \* ghost: per row, how many calls were returned it since it last became unreported
    meter,          \* the meter events PaymentKit accepted, a bag
    req,            \* the send requests in flight
    paymentEnabled, \* payment.ts: let paymentEnabled
    payment,        \* payment.ts: let payment, "null" or the module "payment-js"
    boot,           \* ghost: how far initPayment got, "pending" before it has run
    returned,       \* what the last call of an exported function, or the last GET, returned
    reportingTimer, \* usageReporting.ts: reportingTimer !== null
    isReporting,    \* usageReporting.ts: the in-flight guard
    skipped,        \* ghost: ticks that returned at the guard
    rolledBack,     \* ghost: the rows that went from counted back to unreported
    response,       \* the response written last (res.status(...).json(...), res.json(...))
    intervals,      \* ghost: the intervals setInterval created and clearInterval has not cleared
    rateLimitStore, \* rateLimit.ts: the Map of entries, by rate-limit key
    now,            \* Date.now(), in ticks
    admitted,       \* ghost: per rate-limit key and tick, the requests rateLimit passed on
    apiKeys,        \* the rows of table "api_keys", in creation order
    keyCall         \* the calls of the API key service in flight

vars == <<usage, task, holders, meter, req, paymentEnabled, payment, boot, returned,
          reportingTimer, isReporting, skipped, rolledBack, response,
          intervals, rateLimitStore, now, admitted, apiKeys, keyCall>>

\* the state of the rate limiter, with the clock
rateVars == <<rateLimitStore, now, admitted>>

\* the state of the API key service
keyVars == <<apiKeys, keyCall>>

\* the state of the gateway switch
gatewayVars == <<paymentEnabled, payment, boot>>

\* the state of the scheduler
schedVars == <<reportingTimer, isReporting, skipped>>

----------------------------------------------------------------------------
\* Bounds of the model

MaxEvents == 2
NumTasks == 2
NumReqs == 1
MaxMeter == 2
MaxSkipped == 1
MaxRecipients == 2
MaxTime == 3
MaxKeys == 3
NumKeyCalls == 2

----------------------------------------------------------------------------
\* Program constants

\* Config.pricing, in micro-credits: per email, per 1K input tokens, per 1K output tokens
emailSent == 10000
aiInputRate == 1000
aiOutputRate == 3000
BATCH_SIZE == 100

PeekDid == "__peek__"
Users == {"U1", "U2"}
Owners == Users \cup {PeekDid}
Tasks == 1..NumTasks
Reqs == 1..NumReqs
\* result.aiTokens of emailService.send and emailService.preview
AiTokens == {[input |-> 0, output |-> 0], [input |-> 1000, output |-> 500]}
NoAiTokens == [input |-> 0, output |-> 0]
OneNonce == "a"
\* the routes of api/routes/v1/send.ts
Paths == {"/", "/test", "/batch", "/preview"}
\* the values of `${Date.now()}_${Math.random().toString(36).substr(2, 9)}`
Nonces == {"a", "b"}
\* getCreditBalance returns null: gateway disabled, no customer, or the provider failed
NoBalance == -1
\* hasSufficientCredits: available of the answer it gives without a balance
Infinity == -2
\* summary.available of payment.creditGrants.summary, in micro-credits
Summaries == {0, 11100, 22200}
\* the limits claimUnreportedUsage is called with: the peek's and the batch's
Limits == {1, BATCH_SIZE}

KeyCalls == 1..NumKeyCalls
\* expiresAt: null
NoExpiry == 0
\* a call of the API key service: the function (op), where it stands, the id
\* it was called with, the record its findOne returned (status, expiresAt and
\* tier as read), and for rotateApiKey the id of the key it created
IdleKeyCall == [op |-> "none", pc |-> "idle", id |-> 0, userDid |-> "", record |-> <<>>, created |-> 0]

\* rateLimit.ts: windowMs of rateLimit(), 60 s; a tick of the clock is 30 s
windowMs == 2
\* Config.tierLimits[tier].rateLimit and Config.defaultRateLimit
tierLimits == [free |-> 10, starter |-> 60, pro |-> 300, enterprise |-> 1000]
defaultRateLimit == 60
\* the callers of a rate limited route: req.apiKey (id, rateLimit and tier of
\* the key record) or, without one, the address of the client
RateCallers == {[apiKey |-> TRUE, id |-> "K1", rateLimit |-> 2, tier |-> "free", ip |-> "1"],
                [apiKey |-> FALSE, id |-> "", rateLimit |-> 0, tier |-> "", ip |-> "1"]}
\* getRateLimitKey(req)
getRateLimitKey(caller) == IF caller.apiKey THEN <<"key", caller.id>> ELSE <<"ip", caller.ip>>
RateKeys == {getRateLimitKey(caller) : caller \in RateCallers}
\* rateLimitStore.get(key) undefined
NoEntry == [count |-> 0, resetTime |-> -1]

Min(a, b) == IF a < b THEN a ELSE b

RECURSIVE SeqToSet(_)
SeqToSet(s) == IF s = <<>> THEN {} ELSE {Head(s)} \cup SeqToSet(Tail(s))

RECURSIVE SumCredits(_, _)
SumCredits(rows, ids) ==
    IF ids = <<>> THEN 0 ELSE rows[Head(ids)].usedCredits + SumCredits(rows, Tail(ids))

----------------------------------------------------------------------------
\* api/libs/config.ts: calculateEmailCredits

\* mutant: the token rates taken per token, not per 1K tokens
calculateEmailCreditsPerToken(emailCount, aiInputTokens, aiOutputTokens) ==
    emailCount * emailSent + aiInputTokens * aiInputRate + aiOutputTokens * aiOutputRate

\* mutant: a price that reads the gateway switch, nothing is charged while
\* billing is off
calculateEmailCreditsWhenEnabled(emailCount, aiInputTokens, aiOutputTokens) ==
    IF ~paymentEnabled THEN 0
    ELSE emailCount * emailSent
         + (IF aiInputTokens > 0 THEN (aiInputTokens * aiInputRate) \div 1000 ELSE 0)
         + (IF aiOutputTokens > 0 THEN (aiOutputTokens * aiOutputRate) \div 1000 ELSE 0)

\* Every amount is a whole number of micro-credits (the rates are whole
\* micro-credits per token), so Math.round(credits * 1e10) / 1e10 returns the
\* sum it is given.
calculateEmailCredits(emailCount, aiInputTokens, aiOutputTokens) ==
    emailCount * emailSent
    + (IF aiInputTokens > 0 THEN (aiInputTokens * aiInputRate) \div 1000 ELSE 0)
    + (IF aiOutputTokens > 0 THEN (aiOutputTokens * aiOutputRate) \div 1000 ELSE 0)

----------------------------------------------------------------------------
\* api/services/usage.ts: the ledger

Ids == 1..Len(usage)

\* "a || b" of JavaScript on numbers: 0 is falsy
OrElse(a, b) == IF a = 0 THEN b ELSE a

\* Usage.create(...) of recordUsage: the row it inserts
newUsage(userDid, type, emailCount, aiInputTokens, aiOutputTokens) ==
    [ userDid |-> userDid,
      type |-> type,
      emailCount |-> OrElse(emailCount, IF type = "email_sent" THEN 1 ELSE 0),
      aiInputTokens |-> aiInputTokens,
      aiOutputTokens |-> aiOutputTokens,
      usedCredits |-> calculateEmailCredits(OrElse(emailCount, 1), aiInputTokens, aiOutputTokens),
      usageReportStatus |-> "null" ]

recordUsage(rows, userDid, type, emailCount, aiInputTokens, aiOutputTokens) ==
    Append(rows, newUsage(userDid, type, emailCount, aiInputTokens, aiOutputTokens))

\* mutant: the findAll of the claim ordered by createdAt DESC
findUnreportedNewestFirst(rows, userDid, limit) ==
    LET all == SelectSeq([i \in 1..Len(rows) |-> Len(rows) + 1 - i],
                         LAMBDA i: rows[i].userDid = userDid
                                   /\ rows[i].usageReportStatus = "null")
    IN SubSeq(all, 1, Min(limit, Len(all)))

\* Usage.findAll({where: {userDid, usageReportStatus: null}, order: createdAt ASC, limit})
findUnreported(rows, userDid, limit) ==
    LET all == SelectSeq([i \in 1..Len(rows) |-> i],
                         LAMBDA i: rows[i].userDid = userDid
                                   /\ rows[i].usageReportStatus = "null")
    IN SubSeq(all, 1, Min(limit, Len(all)))

\* Usage.update({usageReportStatus: to}, {where: {id: ids, usageReportStatus: from}})
updateStatus(rows, ids, from, to) ==
    [i \in 1..Len(rows) |->
        IF i \in ids /\ rows[i].usageReportStatus = from
        THEN [rows[i] EXCEPT !.usageReportStatus = to]
        ELSE rows[i]]

\* mutant: the update of the claim also clears usedCredits,
\* Usage.update({usageReportStatus: 'counted', usedCredits: 0}, ...)
claimUpdateClearsCredits(rows, ids) ==
    [i \in 1..Len(rows) |->
        IF i \in ids /\ rows[i].usageReportStatus = "null"
        THEN [rows[i] EXCEPT !.usageReportStatus = "counted", !.usedCredits = 0]
        ELSE rows[i]]

\* the update of claimUnreportedUsage
claimUpdate(rows, ids) == updateStatus(rows, ids, "null", "counted")

\* mutant: the update without its id condition, where: {usageReportStatus: 'counted'}
markUsageReportedAnyId(rows, ids) == updateStatus(rows, 1..Len(rows), "counted", "reported")

\* mutant: the update without its status condition, where: {id: ids}
markUsageReportedAnyStatus(rows, ids) ==
    [i \in 1..Len(rows) |->
        IF i \in ids THEN [rows[i] EXCEPT !.usageReportStatus = "reported"] ELSE rows[i]]

markUsageReported(rows, ids) == updateStatus(rows, ids, "counted", "reported")

\* mutant: the update without its status condition, where: {id: ids}
resetClaimedUsageAnyStatus(rows, ids) ==
    [i \in 1..Len(rows) |->
        IF i \in ids THEN [rows[i] EXCEPT !.usageReportStatus = "null"] ELSE rows[i]]

\* mutant: the body of markUsageReported pasted into resetClaimedUsage
resetClaimedUsageAsMark(rows, ids) == updateStatus(rows, ids, "counted", "reported")

resetClaimedUsage(rows, ids) == updateStatus(rows, ids, "counted", "null")

\* what claimUnreportedUsage returns: the rows its findAll read
claimResult(found, rowsAfterUpdate) == found

----------------------------------------------------------------------------
\* The calls in flight

\* op: the function whose call this is ("claim": claimUnreportedUsage called
\* directly, "peek": getUniqueUsersWithUnreportedUsage, "reportUser":
\* reportUserUsage); cycle: the call runs inside processUnreportedUsage;
\* threw: reportUserUsage left through its catch block;
\* owed, called, aborted: ghosts of a cycle (owners with unreported usage at
\* its start, owners reportUserUsage was called for, rows that a call of
\* reportUserUsage had read when an error ended it)
IdleTask == [op |-> "none", pc |-> "idle", userDid |-> "", records |-> <<>>,
             userDids |-> <<>>, success |-> FALSE, threw |-> FALSE, cycle |-> FALSE,
             owed |-> {}, called |-> {}, aborted |-> {}]

\* req.apiKey undefined, and validateApiKey returning null
NoApiKey == [userDid |-> "", permissions |-> {}]

\* a request: where it stands (idle, creditCheck, permission, handler, record,
\* immediate), its route, req.user.did, req.apiKey, req.authMethod, its
\* recipient count, and the arguments of recordUsage; ghosts: gate, the branch
\* of creditCheck that called next(); sent, the sends of the request that the
\* mailer reported successful; eventId, the row its recordUsage inserted
IdleReq == [pc |-> "idle", path |-> "", userDid |-> "", apiKey |-> NoApiKey,
            authMethod |-> "none", gate |-> "", recipients |-> 0, type |-> "",
            emailCount |-> 0, aiInputTokens |-> 0, aiOutputTokens |-> 0,
            sent |-> 0, eventId |-> 0]

\* nothing returned yet
NoResult == [fn |-> "none"]

\* no response written; as the answer of a middleware: next() was called
NoResponse == [status |-> 0, error |-> "", message |-> "", required |-> 0,
               available |-> 0, shortfall |-> 0, paymentLink |-> <<>>]

----------------------------------------------------------------------------
\* api/libs/payment.ts: initPayment, isPaymentEnabled

\* initPayment(): what it leaves in paymentEnabled and payment (and, ghost, how
\* far it got).  billing: Config.creditBasedBillingEnabled; importOk: the
\* import of @blocklet/payment-js resolved; modeOk: setLiveMode/setTestMode
\* returned; metersOk: payment.meters.list and payment.meters.create of
\* ensureMeterExists resolved, the only calls that reach the provider
initPayment(billing, importOk, modeOk, metersOk) ==
    IF ~billing
    THEN [paymentEnabled |-> FALSE, payment |-> "null", boot |-> "billing off"]
    ELSE IF ~importOk
    THEN [paymentEnabled |-> FALSE, payment |-> "null", boot |-> "import failed"]
    ELSE IF ~modeOk
    THEN [paymentEnabled |-> FALSE, payment |-> "payment-js", boot |-> "setup failed"]
    ELSE [paymentEnabled |-> TRUE, payment |-> "payment-js",
          boot |-> IF metersOk THEN "ready" ELSE "meter failed"]

isPaymentEnabled == paymentEnabled /\ payment # "null"

\* the gateway as a call of initPayment left it
started(outcome) ==
    /\ paymentEnabled = outcome.paymentEnabled
    /\ payment = outcome.payment
    /\ boot = outcome.boot

InitShared ==
    /\ usage = <<>>
    /\ task = [t \in Tasks |-> IdleTask]
    /\ holders = [i \in 1..MaxEvents |-> 0]
    /\ meter = EmptyBag
    /\ req = [r \in Reqs |-> IdleReq]
    /\ reportingTimer = FALSE
    /\ isReporting = FALSE
    /\ skipped = 0
    /\ rolledBack = {}
    /\ response = NoResponse
    /\ returned = NoResult
    /\ intervals = 0
    /\ rateLimitStore = [key \in RateKeys |-> NoEntry]
    /\ now = 0
    /\ admitted = [key \in RateKeys |-> [t \in 0..MaxTime |-> 0]]
    /\ keyCall = [c \in KeyCalls |-> IdleKeyCall]

\* the process before the first request, table "api_keys" empty
InitCommon ==
    /\ InitShared
    /\ apiKeys = <<>>

\* a new call takes the first free slot (the slots are interchangeable)
freeSlot(t) == task[t].pc = "idle" /\ \A s \in Tasks : s < t => task[s].pc # "idle"

\* The slots are kept in one order (idle slots last, the calls that wait for
\* their update by the rows they read), so that two states that differ only in
\* which slot holds which call are one state.
RECURSIVE rowsCode(_)
rowsCode(records) == IF records = <<>> THEN 0 ELSE 2 ^ Head(records) + rowsCode(Tail(records))

slotKey(tk) == IF tk.pc = "idle" THEN 0 ELSE 1 + rowsCode(tk.records)

RECURSIVE insertSlot(_, _)
insertSlot(tk, slots) ==
    IF slots = <<>> THEN <<tk>>
    ELSE IF slotKey(tk) >= slotKey(Head(slots)) THEN <<tk>> \o slots
    ELSE <<Head(slots)>> \o insertSlot(tk, Tail(slots))

RECURSIVE sortSlots(_)
sortSlots(slots) ==
    IF slots = <<>> THEN <<>> ELSE insertSlot(Head(slots), sortSlots(Tail(slots)))

\* where a call continues once its claimUnreportedUsage has returned
afterClaim(op, records) ==
    CASE op = "claim" -> "idle"
      [] op = "reportUser" -> IF Len(records) = 0 THEN "done" ELSE "report"
      [] OTHER -> "peeked"

\* claimUnreportedUsage(userDid, limit) up to its update: the findAll, and the
\* return of [] when it finds nothing; tk is the calling task's record
claimFind(tk, userDid, limit) ==
    LET found == findUnreported(usage, userDid, limit)
        pc == IF Len(found) = 0 THEN afterClaim(tk.op, found) ELSE "update"
    IN IF pc = "idle" THEN IdleTask
       ELSE [tk EXCEPT !.userDid = userDid, !.records = found, !.pc = pc]

\* claimUnreportedUsage from its update to its return
ClaimUpdate(t) ==
    /\ task[t].pc = "update"
    /\ LET ids == SeqToSet(task[t].records)
           rows == claimUpdate(usage, ids)
           result == claimResult(task[t].records, rows)
           pc == afterClaim(task[t].op, result)
       IN /\ usage' = rows
          /\ task' = sortSlots([task EXCEPT ![t] = IF pc = "idle" THEN IdleTask
                                                   ELSE [@ EXCEPT !.records = result, !.pc = pc]])
          /\ holders' = [i \in 1..MaxEvents |->
                            IF i \in SeqToSet(result) THEN holders[i] + 1 ELSE holders[i]]
    /\ UNCHANGED <<intervals, rateVars, keyVars, meter, req, gatewayVars, returned, schedVars, rolledBack, response>>

\* claimUnreportedUsage rejects: Usage.findAll or Usage.update failed, no row
\* is changed.  The caller of a direct call gets the exception; reportUserUsage
\* catches it and returns; getUniqueUsersWithUnreportedUsage ignores it
ClaimThrows(t) ==
    /\ task[t].pc = "update"
    /\ task' = sortSlots([task EXCEPT ![t] =
                   CASE task[t].op = "claim" -> IdleTask
                     [] task[t].op = "reportUser" ->
                            [@ EXCEPT !.pc = "done", !.threw = TRUE,
                                      !.aborted = @ \cup SeqToSet(task[t].records)]
                     [] OTHER -> [@ EXCEPT !.pc = "peeked", !.records = <<>>]])
    /\ UNCHANGED <<intervals, rateVars, keyVars, usage, holders, meter, req, gatewayVars, returned, schedVars, rolledBack, response>>

----------------------------------------------------------------------------
\* SpecLedger: the ledger functions under concurrent callers

\* a caller calls claimUnreportedUsage(userDid, limit)
CallClaim(t, userDid, limit) ==
    /\ freeSlot(t)
    /\ task' = sortSlots([task EXCEPT ![t] = claimFind([IdleTask EXCEPT !.op = "claim"],
                                                       userDid, limit)])
    /\ UNCHANGED <<intervals, rateVars, keyVars, usage, holders, meter, req, gatewayVars, returned, schedVars, rolledBack, response>>

CallRecord(userDid, type, emailCount, aiInputTokens) ==
    /\ Len(usage) < MaxEvents
    /\ usage' = recordUsage(usage, userDid, type, emailCount, aiInputTokens, 0)
    /\ UNCHANGED <<intervals, rateVars, keyVars, task, holders, meter, req, gatewayVars, returned, schedVars, rolledBack, response>>

\* (a call that finds no claimed row among ids changes nothing)
CallMark(ids) ==
    /\ \E i \in ids : usage[i].usageReportStatus = "counted"
    /\ usage' = markUsageReported(usage, ids)
    /\ UNCHANGED <<intervals, rateVars, keyVars, task, holders, meter, req, gatewayVars, returned, schedVars, rolledBack, response>>

\* ghost: a row that goes back to unreported has no holder
released(rows, rowsAfter) ==
    [i \in 1..MaxEvents |->
        IF i \in 1..Len(rows) /\ rows[i].usageReportStatus # "null"
                              /\ rowsAfter[i].usageReportStatus = "null"
        THEN 0 ELSE holders[i]]

CallReset(ids) ==
    /\ \E i \in ids : usage[i].usageReportStatus = "counted"
    /\ usage' = resetClaimedUsage(usage, ids)
    /\ holders' = released(usage, usage')
    /\ rolledBack' = rolledBack \cup {i \in Ids : usage[i].usageReportStatus # "null"
                                                 /\ usage'[i].usageReportStatus = "null"}
    /\ UNCHANGED <<intervals, rateVars, keyVars, task, meter, req, gatewayVars, returned, schedVars, response>>

InitLedger ==
    /\ InitCommon
    /\ started(initPayment(FALSE, TRUE, TRUE, TRUE))

NextLedger ==
    \/ \E t \in Tasks, u \in Users, n \in Limits : CallClaim(t, u, n)
    \/ \E t \in Tasks : ClaimUpdate(t)
    \/ \E t \in Tasks : ClaimThrows(t)
    \/ \E u \in Users : CallRecord(u, "email_sent", 1, 0)
    \/ \E ids \in SUBSET Ids : CallMark(ids)
    \/ \E ids \in SUBSET Ids : CallReset(ids)

SpecLedger == InitLedger /\ [][NextLedger]_vars

----------------------------------------------------------------------------
\* Properties of the ledger functions (SpecLedger)

statusOf(rows, i) == rows[i].usageReportStatus

\* C1: the batches claimUnreportedUsage returns to concurrent callers are
\* pairwise disjoint: no row is returned to two calls (unless it was reset to
\* unreported in between).
C1_NoDoubleClaim == \A i \in 1..MaxEvents : holders[i] <= 1

LegalTransition(a, b) ==
    \/ a = b
    \/ a = "null" /\ b = "counted"
    \/ a = "counted" /\ b = "reported"
    \/ a = "counted" /\ b = "null"

\* C5: in every step every row keeps its status or moves along
\* null -> counted, counted -> reported or counted -> null; a reported row
\* never changes again.
C5_LegalTransitions ==
    [][\A i \in Ids : /\ i <= Len(usage')
                      /\ LegalTransition(statusOf(usage, i), statusOf(usage', i))]_vars

\* C5 witness: a row was reported and another is claimed, so claims, marks and
\* resets have been applied to a table holding a reported row.
C5_Witness ==
    \E i, j \in Ids : statusOf(usage, i) = "reported" /\ statusOf(usage, j) = "counted"

\* what the next claimUnreportedUsage(userDid, limit) returns from table rows
nextClaim(rows, userDid, limit) ==
    LET found == findUnreported(rows, userDid, limit)
    IN SeqToSet(claimResult(found, claimUpdate(rows, SeqToSet(found))))

\* C9: when resetClaimedUsage(ids) is called on rows of one owner that a claim
\* returned and that are still claimed, the next claimUnreportedUsage of that
\* owner with the batch size returns all of ids again.
C9_ResetThenClaimAgain ==
    [][\A ids \in SUBSET Ids : \A u \in Users :
          ( /\ ids # {}
            /\ \A i \in ids : /\ usage[i].userDid = u
                              /\ statusOf(usage, i) = "counted"
                              /\ holders[i] > 0
            /\ CallReset(ids) )
          => ids \subseteq nextClaim(usage', u, BATCH_SIZE)]_vars

\* C9 witness: a row that was rolled back has been claimed and returned again.
C9_Witness ==
    \E i \in Ids : i \in rolledBack /\ statusOf(usage, i) = "counted" /\ holders[i] > 0

\* C10: a step of markUsageReported(ids) turns the claimed rows among ids to
\* reported and leaves every other row, and every other field, as it was.
C10_MarkFrame ==
    [][\A ids \in SUBSET Ids :
          CallMark(ids) =>
            /\ Len(usage') = Len(usage)
            /\ \A i \in Ids :
                 /\ (i \in ids /\ statusOf(usage, i) = "counted")
                       => usage'[i] = [usage[i] EXCEPT !.usageReportStatus = "reported"]
                 /\ (i \in ids /\ statusOf(usage, i) # "counted") => usage'[i] = usage[i]
                 /\ i \notin ids => usage'[i] = usage[i]]_vars

\* C10 witness: a row is reported while another row is still unreported.
C10_Witness ==
    \E i, j \in Ids : statusOf(usage, i) = "reported" /\ statusOf(usage, j) = "null"

\* the unreported rows of an owner
unreportedOf(rows, userDid) ==
    {i \in 1..Len(rows) : rows[i].userDid = userDid /\ rows[i].usageReportStatus = "null"}

\* ids is a batch of at most limit rows taken oldest first from the pool: it
\* is ascending, and every row of the pool outside it is younger than all of
\* it, or the batch is full
oldestFirst(ids, pool, limit) ==
    /\ Len(ids) = Min(limit, Cardinality(pool))
    /\ SeqToSet(ids) \subseteq pool
    /\ \A k \in 1..Len(ids) - 1 : ids[k] < ids[k + 1]
    /\ \A i \in SeqToSet(ids), j \in pool \ SeqToSet(ids) : i < j

\* the calls of claimUnreportedUsage that wait for their update, as a bag of
\* <<owner, rows read>>
waiting(tasks) ==
    LET slots == {t \in Tasks : tasks[t].op = "claim" /\ tasks[t].pc = "update"}
    IN [b \in {<<tasks[t].userDid, tasks[t].records>> : t \in slots} |->
           Cardinality({t \in slots : <<tasks[t].userDid, tasks[t].records>> = b})]

\* C25: claimUnreportedUsage(owner, limit) reads at most limit rows, all of
\* owner and unreported when the call reads them, oldest first (a call that
\* finds none returns the empty list at once); it returns these rows, and
\* its update changes nothing but the status of rows it read: rows of other
\* owners and rows beyond the batch keep their status.
C25_ClaimsOldestOfOwner ==
    /\ [][\A t \in Tasks, u \in Users, n \in Limits :
            CallClaim(t, u, n) =>
               IF unreportedOf(usage, u) = {}
               THEN UNCHANGED <<task, usage>>
               ELSE \E ids \in BagToSet(waiting(task')) :
                      /\ ids[1] = u
                      /\ oldestFirst(ids[2], unreportedOf(usage, u), n)
                      /\ waiting(task') = waiting(task) (+) SetToBag({ids})
                      /\ UNCHANGED usage]_vars
    /\ [][\A t \in Tasks :
            (task[t].op = "claim" /\ ClaimUpdate(t)) =>
               /\ \A i \in SeqToSet(task[t].records) :
                     /\ holders'[i] = holders[i] + 1
                     /\ usage'[i] = [usage[i] EXCEPT !.usageReportStatus =
                                        IF @ = "null" THEN "counted" ELSE @]
               /\ \A i \in Ids \ SeqToSet(task[t].records) :
                     usage'[i] = usage[i] /\ holders'[i] = holders[i]
               /\ Len(usage') = Len(usage)]_vars

\* C25 witness: a call with limit 1 has claimed the older of two rows of one
\* owner, the younger is still unreported, and a row is held by a call.
C25_Witness ==
    \E i, j \in Ids :
        /\ i < j
        /\ usage[i].userDid = usage[j].userDid
        /\ statusOf(usage, i) = "counted"
        /\ holders[i] = 1
        /\ statusOf(usage, j) = "null"
        /\ holders[j] = 0
        /\ j \notin rolledBack

\* C18: the table is append-only: no step removes a row, and a step changes
\* nothing of an existing row but its usageReportStatus (owner, type, the three
\* counts and usedCredits stay; the position stands for id and createdAt).
C18_AppendOnly ==
    [][/\ Len(usage') >= Len(usage)
       /\ \A i \in Ids :
            [usage'[i] EXCEPT !.usageReportStatus = statusOf(usage, i)] = usage[i]]_vars

\* C18 witness: the table is full, one row has been claimed and reported and
\* another claimed and rolled back.
C18_Witness ==
    /\ Len(usage) = MaxEvents
    /\ \E i, j \in Ids : statusOf(usage, i) = "reported" /\ j \in rolledBack /\ i # j

----------------------------------------------------------------------------
\* api/libs/payment.ts: reportUsage, and usageReporting.ts: reportUserUsage

\* identifier of the meter event: `ek_${Date.now()}_${Math.random()...}`
identifier(nonce) == <<"ek", nonce>>

\* the meter after reportUsage(userDid, creditsUsed, metadata); accepted: the
\* customer was found and payment.meterEvents.create resolved.  covers is the
\* usage rows the report stands for: metadata.record_ids of a batch report; for
\* an immediate report (ghost) the row the handler has just recorded
reportUsage(m, userDid, creditsUsed, covers, immediate, accepted, nonce) ==
    IF isPaymentEnabled /\ accepted
    THEN m (+) SetToBag({[customer |-> userDid, value |-> creditsUsed,
                          covers |-> covers, immediate |-> immediate,
                          identifier |-> identifier(nonce)]})
    ELSE m

RECURSIVE sumCopies(_, _)
sumCopies(m, events) ==
    IF events = {} THEN 0
    ELSE LET e == CHOOSE x \in events : TRUE
         IN CopiesIn(e, m) + sumCopies(m, events \ {e})

\* the number of accepted meter events that stand for row i
reportsOf(i) == sumCopies(meter, {e \in BagToSet(meter) : i \in e.covers})

\* mutant: reportUsage without its first line, if (!isPaymentEnabled()) return true
reportUsageResultOfProvider(accepted) == accepted

\* what reportUsage returns
reportUsageResult(accepted) == ~isPaymentEnabled \/ accepted

\* totalCredits of reportUserUsage: recomputed from the counts of each record
RECURSIVE totalCredits(_, _)
totalCredits(rows, records) ==
    IF records = <<>> THEN 0
    ELSE calculateEmailCredits(rows[Head(records)].emailCount,
                               rows[Head(records)].aiInputTokens,
                               rows[Head(records)].aiOutputTokens)
         + totalCredits(rows, Tail(records))

\* the for loop of processUnreportedUsage at the head of userDids: the call of
\* reportUserUsage for the next owner, up to the update of its claim; past the
\* last owner the try block is left
forLoop(tk, userDids) ==
    IF userDids = <<>>
    THEN [tk EXCEPT !.op = "process", !.pc = "finally", !.userDid = "",
                    !.records = <<>>, !.userDids = <<>>, !.success = FALSE,
                    !.threw = FALSE]
    ELSE claimFind([tk EXCEPT !.op = "reportUser", !.userDids = Tail(userDids),
                              !.called = @ \cup {Head(userDids)}, !.success = FALSE,
                              !.threw = FALSE],
                   Head(userDids), BATCH_SIZE)

\* reportUserUsage: the sum, reportUsage and the branch on its result
RuReport(t, accepted, nonce) ==
    /\ task[t].pc = "report"
    /\ accepted => BagCardinality(meter) < MaxMeter
    /\ LET recordIds == task[t].records
           success == reportUsageResult(accepted)
       IN /\ meter' = reportUsage(meter, task[t].userDid, totalCredits(usage, recordIds),
                                  SeqToSet(recordIds), FALSE, accepted, nonce)
          /\ task' = [task EXCEPT ![t].success = success,
                                  ![t].pc = IF success THEN "mark" ELSE "done",
                                  ![t].aborted = IF success THEN @
                                                 ELSE @ \cup SeqToSet(recordIds)]
    /\ UNCHANGED <<intervals, rateVars, keyVars, usage, holders, req, gatewayVars, returned, schedVars, rolledBack, response>>

\* reportUserUsage, success branch: markUsageReported(recordIds)
RuMark(t) ==
    /\ task[t].pc = "mark"
    /\ usage' = markUsageReported(usage, SeqToSet(task[t].records))
    /\ task' = [task EXCEPT ![t].pc = "done"]
    /\ UNCHANGED <<intervals, rateVars, keyVars, holders, meter, req, gatewayVars, returned, schedVars, rolledBack, response>>

\* reportUserUsage, success branch: markUsageReported rejects (Usage.update
\* failed), and the catch block ends the call
RuMarkThrows(t) ==
    /\ task[t].pc = "mark"
    /\ task' = [task EXCEPT ![t].pc = "done", ![t].threw = TRUE,
                            ![t].aborted = @ \cup SeqToSet(task[t].records)]
    /\ UNCHANGED <<intervals, rateVars, keyVars, usage, holders, meter, req, gatewayVars, returned, schedVars, rolledBack, response>>

\* reportUserUsage returns, and the for loop goes on
RuReturn(t) ==
    /\ task[t].pc = "done"
    /\ task' = [task EXCEPT ![t] = IF task[t].cycle THEN forLoop(task[t], task[t].userDids)
                                   ELSE IdleTask]
    /\ UNCHANGED <<intervals, rateVars, keyVars, usage, holders, meter, req, gatewayVars, returned, schedVars, rolledBack, response>>

\* processUnreportedUsage: the finally block
ProcessFinally(t) ==
    /\ task[t].pc = "finally"
    /\ isReporting' = FALSE
    /\ task' = [task EXCEPT ![t] = IdleTask]
    /\ UNCHANGED <<intervals, rateVars, keyVars, usage, holders, meter, req, gatewayVars, returned, reportingTimer, skipped, rolledBack, response>>

----------------------------------------------------------------------------
\* api/libs/payment.ts: hasSufficientCredits; api/middlewares/creditCheck.ts

\* getCreditBalance: null when the gateway is disabled; summary is what the
\* provider answers (NoBalance: no customer, or the call failed)
getCreditBalance(summary) == IF ~isPaymentEnabled THEN NoBalance ELSE summary

\* mutant: a missing balance counted as a balance of 0
hasSufficientCreditsFailClosed(summary, requiredCredits) ==
    LET balance == IF getCreditBalance(summary) = NoBalance THEN 0
                   ELSE getCreditBalance(summary)
        sufficient == balance >= requiredCredits
    IN [sufficient |-> sufficient, available |-> balance, required |-> requiredCredits,
        shortfall |-> IF sufficient THEN 0 ELSE requiredCredits - balance]

hasSufficientCredits(summary, requiredCredits) ==
    LET balance == getCreditBalance(summary)
        sufficient == balance >= requiredCredits
    IN IF balance = NoBalance
       THEN [sufficient |-> TRUE, available |-> Infinity,
             required |-> requiredCredits, shortfall |-> 0]
       ELSE [sufficient |-> sufficient, available |-> balance,
             required |-> requiredCredits,
             shortfall |-> IF sufficient THEN 0 ELSE requiredCredits - balance]

\* `${baseUrl}?did=${encodeURIComponent(userDid)}` with baseUrl '/payment'
getPaymentLink(userDid) == <<"/payment", userDid>>

\* estimateCreditsForRequest: ~500 input and ~200 output tokens per recipient
estimateCreditsForRequest(recipientCount) ==
    calculateEmailCredits(recipientCount, 500 * recipientCount, 200 * recipientCount)

\* res.status(status).json({...}) without error text, and res.json({...})
json(status) == [NoResponse EXCEPT !.status = status]

\* res.status(status).json({error, message})
jsonError(status, error, message) ==
    [NoResponse EXCEPT !.status = status, !.error = error, !.message = message]

\* the 402 of creditCheck (its message, a text built from required and
\* available, is left out)
insufficientCredits(userDid, required, available, shortfall) ==
    [status |-> 402, error |-> "Insufficient credits", message |-> "",
     required |-> required, available |-> available, shortfall |-> shortfall,
     paymentLink |-> getPaymentLink(userDid)]

\* the 401 of creditCheck
mustBeAuthenticated ==
    jsonError(401, "Authentication required", "You must be authenticated to use this endpoint")

\* mutant: creditCheck without the isPaymentEnabled() test, on the provider's
\* answer itself
creditCheckWhenDisabled(path, userDid, estimatedCredits, summary) ==
    IF path = "/preview" THEN NoResponse
    ELSE IF summary # NoBalance /\ summary < estimatedCredits
    THEN insufficientCredits(userDid, estimatedCredits, summary, estimatedCredits - summary)
    ELSE NoResponse

\* mutant: creditCheck that answers 402 and calls next() all the same
creditCheck402Never(path, userDid, estimatedCredits, summary) == NoResponse

\* mutant: creditCheck({skipForPreview: false})
creditCheckNoSkip(path, userDid, estimatedCredits, summary) ==
    IF ~isPaymentEnabled THEN NoResponse
    ELSE IF userDid = "" THEN mustBeAuthenticated
    ELSE IF summary # NoBalance /\ summary < estimatedCredits
    THEN insufficientCredits(userDid, estimatedCredits, summary, estimatedCredits - summary)
    ELSE NoResponse

\* creditCheck({skipForPreview: true}): the response it writes, or NoResponse
\* when it calls next()
creditCheck(path, userDid, estimatedCredits, summary) ==
    IF ~isPaymentEnabled THEN NoResponse
    ELSE IF path = "/preview" THEN NoResponse
    ELSE IF userDid = "" THEN mustBeAuthenticated
    ELSE LET result == hasSufficientCredits(summary, estimatedCredits)
         IN IF ~result.sufficient
            THEN insufficientCredits(userDid, result.required, result.available,
                                     result.shortfall)
            ELSE NoResponse

\* ghost: the branch of creditCheck that calls next()
gateOf(path, summary) ==
    IF ~isPaymentEnabled THEN "disabled"
    ELSE IF path = "/preview" THEN "preview"
    ELSE IF getCreditBalance(summary) = NoBalance THEN "no balance"
    ELSE "sufficient"

----------------------------------------------------------------------------
\* api/middlewares/hybridAuth.ts, api/middlewares/apiKeyAuth.ts

\* the permissions an API key can hold, of those the send routes ask for
Permissions == {"send", "preview"}

\* what validateApiKey returns for the keys of owners
ApiKeyRecords(owners) == [userDid : owners, permissions : SUBSET Permissions]

\* what a request brings.  apiKey: extractApiKey(req) is not null;
\* apiKeyRecord: what validateApiKey(apiKey) returns; session: the user that
\* BlockletAuth.ensure() puts in req.user, "err" when it calls back with an
\* error, "none" when BlockletAuth is null (the SDK is not installed)
Credentials(owners) ==
    {[apiKey |-> TRUE, apiKeyRecord |-> k, session |-> "none"] :
        k \in ApiKeyRecords(owners) \cup {NoApiKey}}
    \cup {[apiKey |-> FALSE, apiKeyRecord |-> NoApiKey, session |-> s] :
            s \in owners \cup {"err", "none"}}

\* the credential of an owner's API key that holds every permission
fullKey(userDid) ==
    [apiKey |-> TRUE, apiKeyRecord |-> [userDid |-> userDid, permissions |-> Permissions],
     session |-> "none"]

\* hybridAuth(): the response it writes (NoResponse: next() is called), and
\* what it leaves in req.apiKey, req.user.did and req.authMethod
hybridAuth(cred) ==
    IF cred.apiKey
    THEN IF cred.apiKeyRecord # NoApiKey
         THEN [res |-> NoResponse, apiKey |-> cred.apiKeyRecord,
               userDid |-> cred.apiKeyRecord.userDid, authMethod |-> "api_key"]
         ELSE [res |-> jsonError(401, "Invalid API key",
                                 "The provided API key is invalid, expired, or revoked"),
               apiKey |-> NoApiKey, userDid |-> "", authMethod |-> "none"]
    ELSE IF cred.session # "none"
    THEN IF cred.session = "err"
         THEN [res |-> jsonError(401, "Authentication required",
                                 "Provide a valid API key or authenticate via Blocklet SDK"),
               apiKey |-> NoApiKey, userDid |-> "", authMethod |-> "none"]
         ELSE [res |-> NoResponse, apiKey |-> NoApiKey,
               userDid |-> cred.session, authMethod |-> "blocklet"]
    ELSE [res |-> jsonError(401, "Authentication required",
                            "Provide a valid API key via x-api-key header"),
          apiKey |-> NoApiKey, userDid |-> "", authMethod |-> "none"]

\* requirePermission(permission): the response it writes, or NoResponse
requirePermission(apiKey, permission) ==
    IF apiKey = NoApiKey THEN jsonError(401, "Authentication required", "")
    ELSE IF permission \notin apiKey.permissions
    THEN jsonError(403, "Permission denied", "This API key does not have the permission")
    ELSE NoResponse

\* the permission each route of api/routes/v1/send.ts asks for
permissionOf(path) == IF path = "/preview" THEN "preview" ELSE "send"

----------------------------------------------------------------------------
\* api/routes/v1/send.ts: the middleware stack and the routes behind it

\* the response is written and the request is over
respond(r, res) ==
    /\ req' = [req EXCEPT ![r] = IdleReq]
    /\ response' = res

\* the handler goes on to its call of recordUsage
toRecord(r, type, emailCount, aiInputTokens, aiOutputTokens, sent) ==
    /\ req' = [req EXCEPT ![r] = [IdleReq EXCEPT !.pc = "record",
                                                 !.userDid = req[r].userDid,
                                                 !.type = type,
                                                 !.emailCount = emailCount,
                                                 !.aiInputTokens = aiInputTokens,
                                                 !.aiOutputTokens = aiOutputTokens,
                                                 !.sent = sent]]
    /\ UNCHANGED response

\* the table has room for the row of one more handler
roomForRow == Len(usage) + Cardinality({q \in Reqs : req[q].pc = "record"}) < MaxEvents

\* router.use(hybridAuth()) on a request for path (rateLimit(), which comes
\* next in the stack, lets the request pass)
ReqHybridAuth(r, path, cred) ==
    /\ req[r].pc = "idle"
    /\ LET auth == hybridAuth(cred)
       IN IF auth.res = NoResponse
          THEN /\ req' = [req EXCEPT ![r] = [IdleReq EXCEPT !.pc = "creditCheck",
                                                            !.path = path,
                                                            !.userDid = auth.userDid,
                                                            !.apiKey = auth.apiKey,
                                                            !.authMethod = auth.authMethod]]
               /\ UNCHANGED response
          ELSE respond(r, auth.res)
    /\ UNCHANGED <<intervals, rateVars, keyVars, usage, task, holders, meter, gatewayVars, returned, schedVars, rolledBack>>

\* router.use(creditCheck({skipForPreview: true})) on a request for
\* recipients addresses
ReqCreditCheck(r, recipients, summary) ==
    /\ req[r].pc = "creditCheck"
    /\ LET res == creditCheck(req[r].path, req[r].userDid,
                              estimateCreditsForRequest(recipients), summary)
       IN IF res = NoResponse
          THEN /\ req' = [req EXCEPT ![r].pc = "permission",
                                     ![r].recipients = recipients,
                                     ![r].gate = gateOf(req[r].path, summary)]
               /\ UNCHANGED response
          ELSE respond(r, res)
    /\ UNCHANGED <<intervals, rateVars, keyVars, usage, task, holders, meter, gatewayVars, returned, schedVars, rolledBack>>

\* requirePermission('send') or requirePermission('preview') of the route
ReqPermission(r) ==
    /\ req[r].pc = "permission"
    /\ LET res == requirePermission(req[r].apiKey, permissionOf(req[r].path))
       IN IF res = NoResponse
          THEN /\ req' = [req EXCEPT ![r] = [IdleReq EXCEPT !.pc = "handler",
                                                            !.path = req[r].path,
                                                            !.userDid = req[r].userDid,
                                                            !.recipients = req[r].recipients]]
               /\ UNCHANGED response
          ELSE respond(r, res)
    /\ UNCHANGED <<intervals, rateVars, keyVars, usage, task, holders, meter, gatewayVars, returned, schedVars, rolledBack>>

\* POST /api/v1/send and POST /api/v1/send/test: emailService.send resolved
ReqSend(r, success, aiTokens) ==
    /\ req[r].pc = "handler"
    /\ req[r].path \in {"/", "/test"}
    /\ success => roomForRow
    /\ IF success
       THEN toRecord(r, "email_sent", 1, aiTokens.input, aiTokens.output, 1)
       ELSE respond(r, json(500))
    /\ UNCHANGED <<intervals, rateVars, keyVars, usage, task, holders, meter, gatewayVars, returned, schedVars, rolledBack>>

\* mutant: the batch counted by its recipients
successCountAll(results) == Len(results)

\* successCount of the batch handler: the sends that resolved with success
successCount(results) == Cardinality({k \in DOMAIN results : results[k]})

\* POST /api/v1/send/batch: the loop of emailService.send over the recipients,
\* results[k] the success of the k-th send, aiTokens the tokens of each
ReqBatch(r, results, aiTokens) ==
    /\ req[r].pc = "handler"
    /\ req[r].path = "/batch"
    /\ Len(results) = req[r].recipients
    /\ successCount(results) > 0 => roomForRow
    /\ IF successCount(results) > 0
       THEN toRecord(r, "email_sent", successCount(results),
                     successCount(results) * aiTokens.input,
                     successCount(results) * aiTokens.output,
                     Cardinality({k \in 1..Len(results) : results[k]}))
       ELSE respond(r, json(200))
    /\ UNCHANGED <<intervals, rateVars, keyVars, usage, task, holders, meter, gatewayVars, returned, schedVars, rolledBack>>

\* POST /api/v1/send/preview: emailService.preview resolved (ok) or threw
ReqPreview(r, ok, aiTokens) ==
    /\ req[r].pc = "handler"
    /\ req[r].path = "/preview"
    /\ ok => roomForRow
    /\ IF ok
       THEN toRecord(r, "preview", 0, aiTokens.input, aiTokens.output, 0)
       ELSE respond(r, json(500))
    /\ UNCHANGED <<intervals, rateVars, keyVars, usage, task, holders, meter, gatewayVars, returned, schedVars, rolledBack>>

\* await recordUsage({...}) of a handler; ok: Usage.create resolved.  When it
\* rejects, the catch block of the handler answers 500
ReqRecord(r, ok) ==
    /\ req[r].pc = "record"
    /\ IF ok
       THEN /\ usage' = recordUsage(usage, req[r].userDid, req[r].type, req[r].emailCount,
                                    req[r].aiInputTokens, req[r].aiOutputTokens)
            /\ IF req[r].type # "preview" /\ isPaymentEnabled
               THEN /\ req' = [req EXCEPT ![r].pc = "immediate", ![r].eventId = Len(usage) + 1]
                    /\ UNCHANGED response
               ELSE respond(r, json(200))
       ELSE /\ UNCHANGED usage
            /\ respond(r, json(500))
    /\ UNCHANGED <<intervals, rateVars, keyVars, task, holders, meter, gatewayVars, returned, schedVars, rolledBack>>

\* mutant: reportUsageImmediate that reports one email whatever the count
reportUsageImmediateOneEmail(m, userDid, counts, covers, accepted, nonce) ==
    IF ~isPaymentEnabled THEN m
    ELSE reportUsage(m, userDid,
                     calculateEmailCredits(1, counts.aiInputTokens, counts.aiOutputTokens),
                     covers, TRUE, accepted, nonce)

\* usageReporting.ts: reportUsageImmediate(userDid, emailCount, aiInputTokens,
\* aiOutputTokens), the three counts being fields of counts
reportUsageImmediate(m, userDid, counts, covers, accepted, nonce) ==
    IF ~isPaymentEnabled THEN m
    ELSE reportUsage(m, userDid,
                     calculateEmailCredits(counts.emailCount, counts.aiInputTokens,
                                           counts.aiOutputTokens),
                     covers, TRUE, accepted, nonce)

\* what reportUsageImmediate returns
reportUsageImmediateResult(accepted) == ~isPaymentEnabled \/ reportUsageResult(accepted)

\* await reportUsageImmediate(...) of a handler, then its res.json({success: true})
ReqImmediate(r, accepted, nonce) ==
    /\ req[r].pc = "immediate"
    /\ accepted => BagCardinality(meter) < MaxMeter
    /\ meter' = reportUsageImmediate(meter, req[r].userDid, req[r], {req[r].eventId},
                                     accepted, nonce)
    /\ respond(r, json(200))
    /\ UNCHANGED <<intervals, rateVars, keyVars, usage, task, holders, gatewayVars, returned, schedVars, rolledBack>>

----------------------------------------------------------------------------
\* SpecSend: the requests alone

InitSend ==
    /\ InitCommon
    /\ \E billing \in BOOLEAN : started(initPayment(billing, TRUE, TRUE, TRUE))

\* every request, with everything the provider, the mailer and the storage can
\* answer
NextSend ==
    \/ \E r \in Reqs, path \in Paths, cred \in Credentials(Users) : ReqHybridAuth(r, path, cred)
    \/ \E r \in Reqs, n \in 1..MaxRecipients, summary \in Summaries \cup {NoBalance} :
          ReqCreditCheck(r, n, summary)
    \/ \E r \in Reqs : ReqPermission(r)
    \/ \E r \in Reqs, success \in BOOLEAN, aiTokens \in AiTokens : ReqSend(r, success, aiTokens)
    \/ \E r \in Reqs, n \in 1..MaxRecipients, aiTokens \in AiTokens :
          \E results \in [1..n -> BOOLEAN] : ReqBatch(r, results, aiTokens)
    \/ \E r \in Reqs, ok \in BOOLEAN, aiTokens \in AiTokens : ReqPreview(r, ok, aiTokens)
    \/ \E r \in Reqs, ok \in BOOLEAN : ReqRecord(r, ok)
    \/ \E r \in Reqs, accepted \in BOOLEAN : ReqImmediate(r, accepted, OneNonce)

SpecSend == InitSend /\ [][NextSend]_vars

----------------------------------------------------------------------------
\* Properties of the requests (SpecSend)

\* C14: a request whose send the mailer reported successful is answered with
\* success, whatever recordUsage and the immediate report do afterwards.
C14_SentIsAnsweredSuccess ==
    [][\A r \in Reqs :
          ( /\ req[r].pc \in {"record", "immediate"}
            /\ req[r].sent > 0
            /\ req'[r].pc = "idle" )
          => response'.status = 200]_vars

\* the last row of the table
lastRow(rows) == rows[Len(rows)]

\* C15: a request waits for recordUsage only with a send that succeeded, and
\* with the number of its successful sends as emailCount; a row of type
\* email_sent is inserted only by such a request and carries that number; a
\* meter event is sent only by a request that has recorded its row.
C15_OnlySuccessfulSendsCharged ==
    /\ [](\A r \in Reqs :
            (req[r].pc \in {"record", "immediate"} /\ req[r].type = "email_sent")
            => (req[r].sent > 0 /\ req[r].emailCount = req[r].sent))
    /\ [][(Len(usage') > Len(usage) /\ lastRow(usage').type = "email_sent")
            => \E r \in Reqs : /\ req[r].pc = "record"
                                /\ req[r].sent > 0
                                /\ lastRow(usage').emailCount = req[r].sent]_vars
    /\ [][meter' # meter
            => \E r \in Reqs : /\ req[r].pc = "immediate"
                                /\ req[r].sent > 0
                                /\ req[r].eventId \in Ids
                                /\ usage[req[r].eventId].emailCount = req[r].sent]_vars

\* C15 witness: a batch with every send successful has recorded its row and
\* its immediate report was accepted.
C15_Witness ==
    \E i \in Ids : /\ usage[i].type = "email_sent"
                    /\ usage[i].emailCount = MaxRecipients
                    /\ reportsOf(i) > 0

\* C17: a step that changes the table adds exactly one row, unreported, whose
\* usedCredits is calculateEmailCredits of the counts stored in that row.
C17_RecordCreditsOfStoredCounts ==
    [][Len(usage') # Len(usage)
         => /\ Len(usage') = Len(usage) + 1
            /\ SubSeq(usage', 1, Len(usage)) = usage
            /\ lastRow(usage').usageReportStatus = "null"
            /\ lastRow(usage').usedCredits
                  = calculateEmailCredits(lastRow(usage').emailCount,
                                          lastRow(usage').aiInputTokens,
                                          lastRow(usage').aiOutputTokens)]_vars

\* the meter events a step adds
newEvents == {e \in BagToSet(meter') : CopiesIn(e, meter') > CopiesIn(e, meter)}

\* C32: an immediate report is sent only by a request that has recorded its
\* row, with the gateway enabled and never for a preview, and its amount is
\* calculateEmailCredits of the counts stored in that row.
C32_ImmediateAfterRecord ==
    [][\A e \in newEvents :
          e.immediate =>
             \E r \in Reqs, i \in Ids :
                /\ req[r].pc = "immediate"
                /\ req[r].eventId = i
                /\ e.covers = {i}
                /\ isPaymentEnabled
                /\ usage[i].type # "preview"
                /\ usage[i].userDid = e.customer
                /\ e.value = calculateEmailCredits(usage[i].emailCount, usage[i].aiInputTokens,
                                                   usage[i].aiOutputTokens)]_vars

\* C32 witness: the immediate report of a batch of two sends with AI content
\* was accepted.
C32_Witness ==
    \E e \in BagToSet(meter), i \in Ids :
        /\ e.immediate
        /\ e.covers = {i}
        /\ usage[i].emailCount = MaxRecipients
        /\ usage[i].aiInputTokens > 0
        /\ e.value = usage[i].usedCredits

\* a response of creditCheck: its 402 or its 401
byCreditCheck(res) == res.status = 402 \/ res = mustBeAuthenticated

\* C19: with the gateway disabled creditCheck never answers: it writes no 401
\* and no 402, every request goes on to its route.
C19_FailOpenWhenDisabled ==
    /\ [](~paymentEnabled => ~byCreditCheck(response))
    /\ [][\A r \in Reqs :
            (~paymentEnabled /\ req[r].pc = "creditCheck" /\ req'[r] # req[r])
            => req'[r].pc = "permission" /\ UNCHANGED response]_vars

\* C19 witness: with the gateway disabled a request with the largest estimate
\* has passed the gate.
C19_Witness ==
    /\ ~paymentEnabled
    /\ \E r \in Reqs : /\ req[r].pc = "permission"
                        /\ req[r].gate = "disabled"
                        /\ req[r].recipients = MaxRecipients
                        /\ req[r].path # "/preview"

\* C20: with the gateway enabled and a balance the provider answered, a
\* request that is no preview is answered 402 when available < estimated, with
\* required, available, shortfall = required - available and the payment
\* link, and it goes no further: neither the table nor the meter moves;
\* otherwise it goes on to its route and no response is written.
C20_DeniedWhenShort ==
    [][\A r \in Reqs :
          (paymentEnabled /\ req[r].pc = "creditCheck" /\ req[r].path # "/preview") =>
             \A n \in 1..MaxRecipients, summary \in Summaries :
                ReqCreditCheck(r, n, summary) =>
                   LET required == estimateCreditsForRequest(n)
                   IN IF summary < required
                      THEN /\ response' = [status |-> 402, error |-> "Insufficient credits",
                                           message |-> "", required |-> required,
                                           available |-> summary,
                                           shortfall |-> required - summary,
                                           paymentLink |-> getPaymentLink(req[r].userDid)]
                           /\ req'[r].pc = "idle"
                           /\ UNCHANGED <<usage, meter>>
                      ELSE /\ req'[r].pc = "permission"
                           /\ UNCHANGED response]_vars

\* C20 witness: a request was denied with a balance that covers part of the
\* estimate, and another has passed the gate with a balance that covers it.
C20_Witness ==
    /\ paymentEnabled
    /\ response.status = 402
    /\ response.available > 0
    /\ response.shortfall = response.required - response.available
    /\ \E r \in Reqs : req[r].pc = "permission" /\ req[r].gate = "sufficient"

\* C21: a preview request is admitted by creditCheck whatever the provider
\* would answer, a balance of zero included: with the gateway enabled, a step
\* of creditCheck on a request for /preview calls next() and writes nothing.
C21_PreviewExempt ==
    [][\A r \in Reqs :
          (req[r].pc = "creditCheck" /\ req[r].path = "/preview") =>
             \A n \in 1..MaxRecipients, summary \in Summaries \cup {NoBalance} :
                ReqCreditCheck(r, n, summary) =>
                   /\ req'[r].pc = "permission"
                   /\ req'[r].gate \in {"preview", "disabled"}
                   /\ UNCHANGED <<response, usage, meter>>]_vars

\* C21 witness: with the gateway enabled a preview request has passed the
\* gate by the preview branch.
C21_Witness ==
    /\ paymentEnabled
    /\ \E r \in Reqs : /\ req[r].pc = "permission"
                        /\ req[r].path = "/preview"
                        /\ req[r].gate = "preview"

\* C22: with the gateway enabled, a request whose balance lookup fails (no
\* customer, or the provider's summary call rejects) is admitted: creditCheck
\* calls next() and writes nothing.
C22_FailOpenOnProviderError ==
    [][\A r \in Reqs :
          (paymentEnabled /\ req[r].pc = "creditCheck") =>
             \A n \in 1..MaxRecipients :
                ReqCreditCheck(r, n, NoBalance) =>
                   /\ req'[r].pc = "permission"
                   /\ UNCHANGED <<response, usage, meter>>]_vars

\* C22 witness: with the gateway enabled a request that is no preview has
\* passed the gate without a balance, with the largest estimate.
C22_Witness ==
    /\ paymentEnabled
    /\ \E r \in Reqs : /\ req[r].pc = "permission"
                        /\ req[r].gate = "no balance"
                        /\ req[r].recipients = MaxRecipients

\* C30: a request that hybridAuth authenticated, by API key holding the
\* route's permission or by Blocklet SDK, and that creditCheck admitted,
\* reaches its handler.
C30_EitherAuthReachesHandler ==
    [][\A r \in Reqs :
          ( /\ req[r].pc = "permission"
            /\ \/ req[r].authMethod = "blocklet"
               \/ /\ req[r].authMethod = "api_key"
                  /\ permissionOf(req[r].path) \in req[r].apiKey.permissions
            /\ req'[r] # req[r] )
          => req'[r].pc = "handler"]_vars

----------------------------------------------------------------------------
\* SpecUsage: api/routes/v1/usage.ts over a table that grows and whose rows
\* get claimed.  createdAt of a row is its position; a date of the query is a
\* position too, NoDate when the query has none.

NoDate == 0
\* start_date and end_date of a query
DateRanges == {<<NoDate, NoDate>>, <<2, NoDate>>, <<NoDate, 1>>}
\* parseInt(req.query.limit) and parseInt(req.query.offset); 0 also stands for
\* NaN (no parameter, or no number), which "||" treats alike
LimitQueries == {0, 1, -1, 150}
OffsetQueries == {0, 1}
\* req.query.type; "" when the query has none
TypeQueries == {"", "preview", "sent"}
validTypes == {"email_sent", "ai_generation", "preview"}

\* the where clause of getUserUsageStats and getUserUsageHistory on row i
whereMatches(rows, i, userDid, type, startDate, endDate) ==
    /\ rows[i].userDid = userDid
    /\ type # "" => rows[i].type = type
    /\ startDate # NoDate => i >= startDate
    /\ endDate # NoDate => i <= endDate

\* the loop of getUserUsageStats over records (byType and byBrand, which no
\* total depends on, are left out)
RECURSIVE statsLoop(_, _, _)
statsLoop(rows, records, stats) ==
    IF records = <<>> THEN stats
    ELSE LET record == rows[Head(records)]
         IN statsLoop(rows, Tail(records),
                      [totalEmails |-> stats.totalEmails + record.emailCount,
                       totalAiTokens |-> stats.totalAiTokens + record.aiInputTokens
                                                             + record.aiOutputTokens,
                       totalCredits |-> stats.totalCredits + record.usedCredits])

\* mutant: getUserUsageStats over the rows PaymentKit has not been told of,
\* where: {userDid, usageReportStatus: null}
getUserUsageStatsUnreported(rows, userDid, startDate, endDate) ==
    statsLoop(rows,
              SelectSeq([i \in 1..Len(rows) |-> i],
                        LAMBDA i: /\ whereMatches(rows, i, userDid, "", startDate, endDate)
                                  /\ rows[i].usageReportStatus = "null"),
              [totalEmails |-> 0, totalAiTokens |-> 0, totalCredits |-> 0])

getUserUsageStats(rows, userDid, startDate, endDate) ==
    statsLoop(rows,
              SelectSeq([i \in 1..Len(rows) |-> i],
                        LAMBDA i: whereMatches(rows, i, userDid, "", startDate, endDate)),
              [totalEmails |-> 0, totalAiTokens |-> 0, totalCredits |-> 0])

\* Usage.findAndCountAll({where, order: [['createdAt', 'DESC']], limit, offset})
\* on SQLite, matching being the ids the where clause selects: a negative
\* LIMIT is no limit and a negative OFFSET is 0
findAndCountAll(rows, matching, limit, offset) ==
    LET desc == SelectSeq([k \in 1..Len(rows) |-> Len(rows) + 1 - k],
                          LAMBDA i: i \in matching)
        from == IF offset < 0 THEN 0 ELSE offset
        to == IF limit < 0 THEN Len(desc) ELSE Min(from + limit, Len(desc))
    IN [rows |-> SubSeq(desc, from + 1, to), count |-> Len(desc)]

getUserUsageHistory(rows, userDid, limit, offset, startDate, endDate, type) ==
    LET found == findAndCountAll(rows,
                     {i \in 1..Len(rows) :
                         whereMatches(rows, i, userDid, type, startDate, endDate)},
                     OrElse(limit, 50), OrElse(offset, 0))
    IN [records |-> found.rows, total |-> found.count]

\* GET /api/v1/usage of an authenticated user: getUserUsageStats
ReqUsageStats(userDid, startDate, endDate) ==
    /\ returned' = [fn |-> "getUserUsageStats", userDid |-> userDid,
                    startDate |-> startDate, endDate |-> endDate,
                    value |-> getUserUsageStats(usage, userDid, startDate, endDate)]
    /\ UNCHANGED <<intervals, rateVars, keyVars, usage, task, holders, meter, req, gatewayVars, schedVars, rolledBack, response>>

\* GET /api/v1/usage/history of an authenticated user; limitQuery and
\* offsetQuery are parseInt of the query parameters
ReqUsageHistory(userDid, limitQuery, offsetQuery, type, startDate, endDate) ==
    /\ LET limit == Min(OrElse(limitQuery, 50), 100)
           offset == OrElse(offsetQuery, 0)
           history == getUserUsageHistory(usage, userDid, limit, offset, startDate,
                                          endDate, type)
       IN returned' =
            IF type # "" /\ type \notin validTypes
            THEN [fn |-> "history", userDid |-> userDid, status |-> 400]
            ELSE [fn |-> "history", userDid |-> userDid, status |-> 200,
                  limit |-> limit, offset |-> offset, total |-> history.total,
                  hasMore |-> offset + Len(history.records) < history.total,
                  records |-> history.records]
    /\ UNCHANGED <<intervals, rateVars, keyVars, usage, task, holders, meter, req, gatewayVars, schedVars, rolledBack, response>>

InitUsage ==
    /\ InitCommon
    /\ started(initPayment(FALSE, TRUE, TRUE, TRUE))

\* rows come from sends and previews, claims take them
NextUsage ==
    \/ \E u \in Users : CallRecord(u, "email_sent", 1, 0)
    \/ \E u \in Users : CallRecord(u, "preview", 0, 1000)
    \/ \E t \in Tasks, u \in Users : CallClaim(t, u, BATCH_SIZE)
    \/ \E t \in Tasks : ClaimUpdate(t)
    \/ \E u \in Users, dates \in DateRanges : ReqUsageStats(u, dates[1], dates[2])
    \/ \E u \in Users, limitQuery \in LimitQueries, offsetQuery \in OffsetQueries,
          type \in TypeQueries, dates \in DateRanges :
          ReqUsageHistory(u, limitQuery, offsetQuery, type, dates[1], dates[2])

SpecUsage == InitUsage /\ [][NextUsage]_vars

----------------------------------------------------------------------------
\* Properties of the usage routes (SpecUsage)

\* the sum of a field over a set of rows
RECURSIVE sumOver(_, _, _)
sumOver(rows, ids, field) ==
    IF ids = {} THEN 0
    ELSE LET i == CHOOSE x \in ids : TRUE
         IN rows[i][field] + sumOver(rows, ids \ {i}, field)

\* C26: getUserUsageStats(owner) without a date range returns, as totalEmails,
\* totalAiTokens and totalCredits, the sums of emailCount, of aiInputTokens +
\* aiOutputTokens and of usedCredits over all rows of the owner, whatever
\* their status, and over no row of another owner.
C26_StatsAreSums ==
    [][\A u \in Users :
          ReqUsageStats(u, NoDate, NoDate) =>
             LET own == {i \in Ids : usage[i].userDid = u}
             IN returned'.value =
                  [totalEmails |-> sumOver(usage, own, "emailCount"),
                   totalAiTokens |-> sumOver(usage, own, "aiInputTokens")
                                     + sumOver(usage, own, "aiOutputTokens"),
                   totalCredits |-> sumOver(usage, own, "usedCredits")]]_vars

\* C26 witness: the statistics of an owner with two rows, one of them claimed,
\* have been returned.
C26_Witness ==
    /\ returned.fn = "getUserUsageStats"
    /\ returned.startDate = NoDate /\ returned.endDate = NoDate
    /\ \E i, j \in Ids : /\ i # j
                          /\ usage[i].userDid = returned.userDid
                          /\ usage[j].userDid = returned.userDid
                          /\ statusOf(usage, i) = "counted"
                          /\ statusOf(usage, j) = "null"
                          /\ returned.value.totalCredits
                                = usage[i].usedCredits + usage[j].usedCredits

\* the limit of the listing: the query's, 50 without one, 100 at most (and
\* no row for a limit below 0)
listingLimit(limitQuery) ==
    IF limitQuery = 0 THEN 50 ELSE IF limitQuery < 0 THEN 0 ELSE Min(limitQuery, 100)

\* C29: a listing holds only rows of the owner that match the type and the
\* dates of the query, newest first from offset on, at most limit of them,
\* and hasMore is true exactly when matching rows exist beyond offset + the
\* number of rows returned.
C29_HistoryPage ==
    [][\A u \in Users, limitQuery \in LimitQueries, offsetQuery \in OffsetQueries,
          type \in TypeQueries \cap ({""} \cup validTypes), dates \in DateRanges :
          ReqUsageHistory(u, limitQuery, offsetQuery, type, dates[1], dates[2]) =>
             LET startDate == dates[1]
                 endDate == dates[2]
                 matching == {i \in Ids : (usage[i].userDid = u)
                                           /\ (type # "" => usage[i].type = type)
                                           /\ (startDate # NoDate => i >= startDate)
                                           /\ (endDate # NoDate => i <= endDate)}
                 records == returned'.records
                 before(i) == Cardinality({j \in matching : j > i})
             IN /\ returned'.status = 200
                /\ SeqToSet(records) \subseteq matching
                /\ Len(records) <= listingLimit(limitQuery)
                /\ \A k \in 1..Len(records) : before(records[k]) = offsetQuery + k - 1
                /\ returned'.hasMore <=> Cardinality(matching) > offsetQuery + Len(records)]_vars

----------------------------------------------------------------------------
\* SpecGateway: api/libs/payment.ts, initPayment at start-up and the exported
\* functions as any caller may call them, before and after it

\* the amounts a caller reports and the amounts it asks for
Amounts == {0, emailSent}
Required == {estimateCreditsForRequest(n) : n \in 1..MaxRecipients}

\* the app.listen callback runs initPayment, once
InitPayment(billing, importOk, modeOk, metersOk) ==
    /\ boot = "pending"
    /\ LET outcome == initPayment(billing, importOk, modeOk, metersOk)
       IN /\ paymentEnabled' = outcome.paymentEnabled
          /\ payment' = outcome.payment
          /\ boot' = outcome.boot
    /\ UNCHANGED <<intervals, rateVars, keyVars, usage, task, holders, meter, req, returned, schedVars, rolledBack, response>>

CallGetCreditBalance(userDid, summary) ==
    /\ returned' = [fn |-> "getCreditBalance", userDid |-> userDid,
                    value |-> getCreditBalance(summary)]
    /\ UNCHANGED <<intervals, rateVars, keyVars, usage, task, holders, meter, req, gatewayVars, schedVars, rolledBack, response>>

CallHasSufficientCredits(userDid, requiredCredits, summary) ==
    /\ returned' = [fn |-> "hasSufficientCredits", userDid |-> userDid,
                    value |-> hasSufficientCredits(summary, requiredCredits)]
    /\ UNCHANGED <<intervals, rateVars, keyVars, usage, task, holders, meter, req, gatewayVars, schedVars, rolledBack, response>>

CallReportUsage(userDid, creditsUsed, accepted) ==
    /\ accepted => BagCardinality(meter) < MaxMeter
    /\ meter' = reportUsage(meter, userDid, creditsUsed, {}, FALSE, accepted, OneNonce)
    /\ returned' = [fn |-> "reportUsage", userDid |-> userDid,
                    value |-> reportUsageResult(accepted)]
    /\ UNCHANGED <<intervals, rateVars, keyVars, usage, task, holders, req, gatewayVars, schedVars, rolledBack, response>>

CallReportUsageImmediate(userDid, counts, accepted) ==
    /\ accepted => BagCardinality(meter) < MaxMeter
    /\ meter' = reportUsageImmediate(meter, userDid, counts, {}, accepted, OneNonce)
    /\ returned' = [fn |-> "reportUsageImmediate", userDid |-> userDid,
                    value |-> reportUsageImmediateResult(accepted)]
    /\ UNCHANGED <<intervals, rateVars, keyVars, usage, task, holders, req, gatewayVars, schedVars, rolledBack, response>>

\* the process before the app.listen callback has run
InitGateway ==
    /\ InitCommon
    /\ paymentEnabled = FALSE
    /\ payment = "null"
    /\ boot = "pending"

NextGateway ==
    \/ \E billing, importOk, modeOk, metersOk \in BOOLEAN :
          InitPayment(billing, importOk, modeOk, metersOk)
    \/ \E u \in Users, summary \in Summaries \cup {NoBalance} : CallGetCreditBalance(u, summary)
    \/ \E u \in Users, n \in Required, summary \in Summaries \cup {NoBalance} :
          CallHasSufficientCredits(u, n, summary)
    \/ \E u \in Users, n \in Amounts, accepted \in BOOLEAN : CallReportUsage(u, n, accepted)
    \/ \E u \in Users, aiTokens \in AiTokens, accepted \in BOOLEAN :
          CallReportUsageImmediate(u, [emailCount |-> 1, aiInputTokens |-> aiTokens.input,
                                       aiOutputTokens |-> aiTokens.output], accepted)

SpecGateway == InitGateway /\ [][NextGateway]_vars

----------------------------------------------------------------------------
\* Properties of the gateway (SpecGateway)

\* C23: the gateway is enabled only if initPayment ran with billing configured
\* on, the module loaded and the provider reachable; every other outcome of
\* initPayment leaves it disabled.
C23_EnabledOnlyIfInitialized == isPaymentEnabled => boot = "ready"

\* C24: while the gateway is disabled, getCreditBalance returns null,
\* hasSufficientCredits returns sufficient = true with shortfall 0 and the
\* required amount it was given, reportUsage and reportUsageImmediate return
\* true, and no meter event is created.
C24_DisabledGatewayIsNoOp ==
    ~isPaymentEnabled =>
        /\ meter = EmptyBag
        /\ returned.fn = "getCreditBalance" => returned.value = NoBalance
        /\ returned.fn = "hasSufficientCredits" =>
               /\ returned.value.sufficient
               /\ returned.value.shortfall = 0
               /\ returned.value.required \in Required
        /\ returned.fn \in {"reportUsage", "reportUsageImmediate"} => returned.value = TRUE

\* C24 witness: initPayment has failed and left the gateway disabled, and a
\* report was called since (the provider would have refused it or not).
C24_Witness ==
    /\ ~isPaymentEnabled
    /\ boot \in {"import failed", "setup failed"}
    /\ returned.fn \in {"reportUsage", "reportUsageImmediate"}

----------------------------------------------------------------------------
\* SpecPricing: calculateEmailCredits called with any counts, while rows are
\* recorded and initPayment runs

\* the counts calculateEmailCredits is called with
EmailCounts == {0, 1, 100}
TokenCounts == {0, 500, 1000}

CallCalculateEmailCredits(emailCount, aiInputTokens, aiOutputTokens) ==
    /\ returned' = [fn |-> "calculateEmailCredits", emailCount |-> emailCount,
                    aiInputTokens |-> aiInputTokens, aiOutputTokens |-> aiOutputTokens,
                    value |-> calculateEmailCredits(emailCount, aiInputTokens, aiOutputTokens)]
    /\ UNCHANGED <<intervals, rateVars, keyVars, usage, task, holders, meter, req, gatewayVars, schedVars, rolledBack, response>>

NextPricing ==
    \/ \E emailCount \in EmailCounts, aiInputTokens, aiOutputTokens \in TokenCounts :
          CallCalculateEmailCredits(emailCount, aiInputTokens, aiOutputTokens)
    \/ \E u \in Users, aiInputTokens \in TokenCounts : CallRecord(u, "email_sent", 1, aiInputTokens)
    \/ \E billing, importOk, modeOk, metersOk \in BOOLEAN :
          InitPayment(billing, importOk, modeOk, metersOk)

SpecPricing == InitGateway /\ [][NextPricing]_vars

----------------------------------------------------------------------------
\* Properties of the price (SpecPricing)

\* C27: calculateEmailCredits returns emailCount * emailRate
\* + (aiInputTokens / 1000) * inputRate + (aiOutputTokens / 1000) * outputRate;
\* 100 emails without tokens cost 1.0 credit, and a count of zero adds nothing.
C27_PriceFormula ==
    /\ calculateEmailCredits(100, 0, 0) = 1000000
    /\ returned.fn = "calculateEmailCredits" =>
          /\ 1000 * returned.value = 1000 * returned.emailCount * emailSent
                                      + returned.aiInputTokens * aiInputRate
                                      + returned.aiOutputTokens * aiOutputRate
          /\ returned.aiInputTokens = 0 /\ returned.aiOutputTokens = 0
                => returned.value = returned.emailCount * emailSent
          /\ returned.emailCount = 0 /\ returned.aiOutputTokens = 0
                => 1000 * returned.value = returned.aiInputTokens * aiInputRate

\* C27 witness: the price of 100 emails with input and output tokens was asked.
C27_Witness ==
    /\ returned.fn = "calculateEmailCredits"
    /\ returned.emailCount = 100
    /\ returned.aiInputTokens = 500
    /\ returned.aiOutputTokens = 1000
    /\ returned.value = 1003500

\* the rows whose price was computed from the counts of the last call
sameCounts(call) == {i \in Ids : /\ usage[i].emailCount = call.emailCount
                                  /\ usage[i].aiInputTokens = call.aiInputTokens
                                  /\ usage[i].aiOutputTokens = call.aiOutputTokens}

----------------------------------------------------------------------------
\* SpecCycle: the loop of processUnreportedUsage over a list of owners, beside
\* send requests.  The list is any list of distinct owners: what the loop does
\* with the owners it is given.

OwnerLists == {<<u>> : u \in Users} \cup {<<u, v>> : <<u, v>> \in {p \in Users \X Users : p[1] # p[2]}}

CycleRun(t, userDids) ==
    /\ freeSlot(t)
    /\ ~isReporting
    /\ isReporting' = TRUE
    /\ task' = [task EXCEPT ![t] = forLoop([IdleTask EXCEPT !.cycle = TRUE], userDids)]
    /\ UNCHANGED <<intervals, rateVars, keyVars, usage, holders, meter, req, gatewayVars, returned, reportingTimer, skipped, rolledBack, response>>

InitCycle ==
    /\ InitCommon
    /\ started(initPayment(TRUE, TRUE, TRUE, TRUE))

\* The requests beside the loop are those that add rows to the table: a send
\* or a preview for one recipient, by an owner with credits, that the mailer
\* and the storage serve (every other request ends without a row).
NextCycle ==
    \/ \E t \in Tasks, l \in OwnerLists : CycleRun(t, l)
    \/ \E t \in Tasks : ClaimUpdate(t)
    \/ \E t \in Tasks : ClaimThrows(t)
    \/ \E t \in Tasks, accepted \in BOOLEAN, nonce \in Nonces : RuReport(t, accepted, nonce)
    \/ \E t \in Tasks : RuMark(t)
    \/ \E t \in Tasks : RuMarkThrows(t)
    \/ \E t \in Tasks : RuReturn(t)
    \/ \E t \in Tasks : ProcessFinally(t)
    \/ \E r \in Reqs, path \in {"/", "/preview"}, u \in Users : ReqHybridAuth(r, path, fullKey(u))
    \/ \E r \in Reqs : ReqCreditCheck(r, 1, estimateCreditsForRequest(1))
    \/ \E r \in Reqs : ReqPermission(r)
    \/ \E r \in Reqs, aiTokens \in AiTokens : ReqSend(r, TRUE, aiTokens)
    \/ \E r \in Reqs, aiTokens \in AiTokens : ReqPreview(r, TRUE, aiTokens)
    \/ \E r \in Reqs : ReqRecord(r, TRUE)
    \/ \E r \in Reqs, accepted \in BOOLEAN, nonce \in Nonces : ReqImmediate(r, accepted, nonce)

SpecCycle == InitCycle /\ [][NextCycle]_vars

----------------------------------------------------------------------------
\* api/libs/usageReporting.ts: the scheduler, as the server runs it

\* the owners that have an unreported row (ghost: what a cycle owes)
owedOwners == {u \in Owners : \E i \in Ids : usage[i].userDid = u
                                            /\ usage[i].usageReportStatus = "null"}

\* mutant: processUnreportedUsage without its guard
alreadyProcessingNever == FALSE

\* processUnreportedUsage: if (isReporting) return
alreadyProcessing == isReporting

\* getUniqueUsersWithUnreportedUsage: Array.from(userDids) of a set nothing
\* was added to, whatever the peek returned
getUniqueUsersWithUnreportedUsage(records) == <<>>

\* processUnreportedUsage called in slot t, up to the update of the claim that
\* getUniqueUsersWithUnreportedUsage makes for '__peek__'
processUnreportedUsage(t) ==
    IF alreadyProcessing
    THEN /\ skipped' = Min(skipped + 1, MaxSkipped)
         /\ UNCHANGED <<task, isReporting>>
    ELSE /\ isReporting' = TRUE
         /\ task' = [task EXCEPT ![t] =
                        claimFind([IdleTask EXCEPT !.op = "peek", !.cycle = TRUE,
                                                   !.owed = owedOwners], PeekDid, 1)]
         /\ UNCHANGED skipped

\* startUsageReporting: the timer is set, and one cycle is started at once
StartUsageReporting(t) ==
    /\ ~reportingTimer
    /\ isPaymentEnabled
    /\ freeSlot(t)
    /\ reportingTimer' = TRUE
    /\ intervals' = intervals + 1
    /\ processUnreportedUsage(t)
    /\ UNCHANGED <<rateVars, keyVars, usage, holders, meter, req, gatewayVars, returned, rolledBack, response>>

\* the setInterval callback fires
Tick(t) ==
    /\ intervals > 0
    /\ freeSlot(t)
    /\ processUnreportedUsage(t)
    /\ UNCHANGED <<intervals, rateVars, keyVars, usage, holders, meter, req, gatewayVars, returned, reportingTimer, rolledBack, response>>

\* getUniqueUsersWithUnreportedUsage returns, and the for loop starts
ProcessDiscovered(t) ==
    /\ task[t].pc = "peeked"
    /\ task' = [task EXCEPT ![t] =
                   forLoop(task[t], getUniqueUsersWithUnreportedUsage(task[t].records))]
    /\ UNCHANGED <<intervals, rateVars, keyVars, usage, holders, meter, req, gatewayVars, returned, schedVars, rolledBack, response>>

\* the server after app.listen, initPayment having run with the module and
\* the provider at hand: billing is configured on or off
Init ==
    /\ InitCommon
    /\ \E billing \in BOOLEAN : started(initPayment(billing, TRUE, TRUE, TRUE))

\* The steps of reportUserUsage (RuReport, RuMark, RuMarkThrows, RuReturn) are no part of
\* Next: getUniqueUsersWithUnreportedUsage returns no owner, so the body of the
\* for loop never runs in the server.  SpecCycle runs it.  The requests are
\* sends for one recipient, without AI content, by an owner with credits, that
\* the mailer and the storage serve; nothing in the server reads the identifier
\* of a meter event, and one value stands for it.
Next ==
    \/ \E t \in Tasks : StartUsageReporting(t)
    \/ \E t \in Tasks : Tick(t)
    \/ \E t \in Tasks : ClaimUpdate(t)
    \/ \E t \in Tasks : ClaimThrows(t)
    \/ \E t \in Tasks : ProcessDiscovered(t)
    \/ \E t \in Tasks : ProcessFinally(t)
    \/ \E r \in Reqs, u \in Owners : ReqHybridAuth(r, "/", fullKey(u))
    \/ \E r \in Reqs : ReqCreditCheck(r, 1, estimateCreditsForRequest(1))
    \/ \E r \in Reqs : ReqPermission(r)
    \/ \E r \in Reqs : ReqSend(r, TRUE, NoAiTokens)
    \/ \E r \in Reqs : ReqRecord(r, TRUE)
    \/ \E r \in Reqs, accepted \in BOOLEAN : ReqImmediate(r, accepted, OneNonce)

Spec == Init /\ [][Next]_vars

\* the timer keeps firing, started calls run to their end, and requests are served
Fairness ==
    /\ WF_vars(\E t \in Tasks : StartUsageReporting(t))
    /\ WF_vars(\E t \in Tasks : Tick(t))
    /\ WF_vars(\E t \in Tasks : ClaimUpdate(t))
    /\ WF_vars(\E t \in Tasks : ProcessDiscovered(t))
    /\ WF_vars(\E t \in Tasks : ProcessFinally(t))
    /\ WF_vars(\E r \in Reqs : ReqCreditCheck(r, 1, estimateCreditsForRequest(1)))
    /\ WF_vars(\E r \in Reqs : ReqPermission(r))
    /\ WF_vars(\E r \in Reqs : ReqSend(r, TRUE, NoAiTokens))
    /\ WF_vars(\E r \in Reqs : ReqRecord(r, TRUE))
    /\ WF_vars(\E r \in Reqs, accepted \in BOOLEAN, nonce \in Nonces :
                   ReqImmediate(r, accepted, nonce))

SpecFair == Spec /\ Fairness

----------------------------------------------------------------------------
\* Properties of reportUserUsage and of the two reporting paths (SpecCycle)

ruEnded(t, success) ==
    /\ task[t].op = "reportUser"
    /\ task[t].pc = "done"
    /\ task[t].records # <<>>
    /\ ~task[t].threw
    /\ task[t].success = success

C16_PreviewIsFree ==
    /\ \A i \in Ids : usage[i].type = "preview" => usage[i].usedCredits = 0
    /\ \A e \in BagToSet(meter) :
          (\A i \in e.covers : usage[i].type = "preview") => e.value = 0

----------------------------------------------------------------------------
\* Properties of the scheduler (Spec, SpecFair)

InFlight == {t \in Tasks : task[t].pc # "idle"}

\* C7: at most one call of processUnreportedUsage is past the guard, and a
\* tick that finds the guard set changes no row, no meter event and no call.
C7_OneCycleInFlight ==
    /\ [](Cardinality(InFlight) <= 1)
    /\ [][\A t \in Tasks : (alreadyProcessing /\ Tick(t)) => UNCHANGED <<usage, meter, task>>]_vars

\* C7 witness: a tick has returned at the guard while a cycle is in flight.
C7_Witness == skipped > 0 /\ isReporting /\ Cardinality(InFlight) = 1

\* C8: when a cycle leaves its loop, reportUserUsage (and with it
\* claimUnreportedUsage(owner, BATCH_SIZE)) has been called for every owner
\* that had an unreported row when the cycle started.
C8_ClaimsEveryOwedOwner ==
    \A t \in Tasks : task[t].pc = "finally" => task[t].owed \subseteq task[t].called

\* C3: with the gateway enabled and the timer running, every recorded row is
\* eventually reported.
C3_EventuallyReported ==
    \A i \in 1..MaxEvents :
        [](( i \in Ids /\ paymentEnabled /\ reportingTimer)
             => <>(i \in Ids /\ statusOf(usage, i) = "reported"))

\* C37: the owner discovery of a cycle (getUniqueUsersWithUnreportedUsage, up
\* to the return of its claimUnreportedUsage) leaves the usageReportStatus of
\* every row as it is, whoever owns the rows of the table.
C37_DiscoveryIsReadOnly ==
    [][\A t \in Tasks :
          (task[t].op = "peek" /\ ClaimUpdate(t))
             => \A i \in Ids : usage'[i].usageReportStatus = usage[i].usageReportStatus]_vars

----------------------------------------------------------------------------
\* SpecTimer: startUsageReporting and stopUsageReporting as any caller may
\* call them, before and after initPayment, beside the cycles the timer starts

\* mutant: startUsageReporting without its first guard
timerRunningNever == FALSE

\* startUsageReporting: if (reportingTimer) return
timerRunning == reportingTimer

\* startUsageReporting(), called in slot t
CallStartUsageReporting(t) ==
    /\ freeSlot(t)
    /\ LET starts == ~timerRunning /\ isPaymentEnabled
       IN /\ returned' = [fn |-> "startUsageReporting", started |-> starts]
          /\ IF starts
             THEN /\ reportingTimer' = TRUE
                  /\ intervals' = intervals + 1
                  /\ processUnreportedUsage(t)
             ELSE UNCHANGED <<reportingTimer, intervals, task, isReporting, skipped>>
    /\ UNCHANGED <<rateVars, keyVars, usage, holders, meter, req, gatewayVars, rolledBack, response>>

\* stopUsageReporting()
CallStopUsageReporting ==
    /\ returned' = [fn |-> "stopUsageReporting", stopped |-> reportingTimer]
    /\ IF reportingTimer
       THEN /\ intervals' = intervals - 1
            /\ reportingTimer' = FALSE
       ELSE UNCHANGED <<reportingTimer, intervals>>
    /\ UNCHANGED <<rateVars, keyVars, usage, task, holders, meter, req, gatewayVars, isReporting, skipped, rolledBack, response>>

NextTimer ==
    \/ \E billing, importOk, modeOk, metersOk \in BOOLEAN :
          InitPayment(billing, importOk, modeOk, metersOk)
    \/ \E t \in Tasks : CallStartUsageReporting(t)
    \/ CallStopUsageReporting
    \/ \E t \in Tasks : Tick(t)
    \/ \E u \in Owners : CallRecord(u, "email_sent", 1, 0)
    \/ \E t \in Tasks : ClaimUpdate(t)
    \/ \E t \in Tasks : ProcessDiscovered(t)
    \/ \E t \in Tasks : ProcessFinally(t)

SpecTimer == InitGateway /\ [][NextTimer]_vars

\* C34: at most one interval is live, and reportingTimer holds it; a call of
\* startUsageReporting with the timer set, or with the gateway disabled,
\* starts no interval and no cycle; no interval is live while the gateway is
\* disabled; a tick fires only with the timer set, so none after
\* stopUsageReporting until startUsageReporting has set it again.
C34_OneTimer ==
    /\ [](intervals = IF reportingTimer THEN 1 ELSE 0)
    /\ [](reportingTimer => isPaymentEnabled)
    /\ [][\A t \in Tasks :
            (CallStartUsageReporting(t) /\ (reportingTimer \/ ~isPaymentEnabled))
               => UNCHANGED <<reportingTimer, intervals, task, isReporting>>]_vars
    /\ [][CallStopUsageReporting => ~reportingTimer' /\ intervals' = 0]_vars
    /\ [][\A t \in Tasks : Tick(t) => reportingTimer]_vars

\* C34 witness: startUsageReporting was called with the timer running, after
\* a stop and a second start, and returned at its first guard.
C34_Witness ==
    /\ returned = [fn |-> "startUsageReporting", started |-> FALSE]
    /\ reportingTimer
    /\ intervals = 1
    /\ skipped > 0

----------------------------------------------------------------------------
\* SpecRate: api/middlewares/rateLimit.ts, the middleware run for the
\* requests of its callers while the clock advances

\* getTierRateLimit(tier)
getTierRateLimit(tier) ==
    IF tier \in DOMAIN tierLimits THEN OrElse(tierLimits[tier], defaultRateLimit)
    ELSE defaultRateLimit

\* getRateLimit(req)
getRateLimit(caller) ==
    IF caller.apiKey THEN OrElse(caller.rateLimit, getTierRateLimit(caller.tier))
    ELSE tierLimits.free

\* let entry = rateLimitStore.get(key); if (!entry || entry.resetTime < now) ...
entryAt(store, key, time) ==
    IF store[key] = NoEntry \/ store[key].resetTime < time
    THEN [count |-> 0, resetTime |-> time + windowMs]
    ELSE store[key]

\* mutant: the check of the counter, off by one
rateLimitedAbove(entry, limit) == entry.count > limit

\* if (entry.count >= limit)
rateLimited(entry, limit) == entry.count >= limit

\* the middleware of rateLimit() on a request of caller: the entry it leaves
\* in the store, the headers it sets, and its 429 or its call of next()
RateLimit(caller) ==
    /\ LET key == getRateLimitKey(caller)
           limit == getRateLimit(caller)
           entry == entryAt(rateLimitStore, key, now)
           resetSeconds == entry.resetTime - now
           headers == [fn |-> "rateLimit", key |-> key, limit |-> limit,
                       remaining |-> IF limit - entry.count > 0 THEN limit - entry.count ELSE 0,
                       reset |-> entry.resetTime, retryAfter |-> 0]
       IN IF rateLimited(entry, limit)
          THEN /\ rateLimitStore' = [rateLimitStore EXCEPT ![key] = entry]
               /\ returned' = [headers EXCEPT !.fn = "rateLimit 429", !.retryAfter = resetSeconds]
               /\ response' = jsonError(429, "Rate limit exceeded", "")
               /\ UNCHANGED admitted
          ELSE /\ rateLimitStore' = [rateLimitStore EXCEPT ![key] = [entry EXCEPT !.count = @ + 1]]
               /\ returned' = headers
               /\ admitted' = [admitted EXCEPT ![key][now] = @ + 1]
               /\ UNCHANGED response
    /\ UNCHANGED <<intervals, now, keyVars, usage, task, holders, meter, req, gatewayVars, schedVars, rolledBack>>

\* the clock
Advance ==
    /\ now < MaxTime
    /\ now' = now + 1
    /\ UNCHANGED <<intervals, rateLimitStore, admitted, keyVars, usage, task, holders, meter, req, gatewayVars, returned, schedVars, rolledBack, response>>

\* the setInterval callback that deletes the entries whose window is over
Cleanup ==
    /\ rateLimitStore' = [key \in RateKeys |->
                             IF rateLimitStore[key].resetTime < now THEN NoEntry
                             ELSE rateLimitStore[key]]
    /\ UNCHANGED <<intervals, now, admitted, keyVars, usage, task, holders, meter, req, gatewayVars, returned, schedVars, rolledBack, response>>

NextRate ==
    \/ \E caller \in RateCallers : RateLimit(caller)
    \/ Advance
    \/ Cleanup

SpecRate == InitLedger /\ [][NextRate]_vars

\* the limit of a rate-limit key
limitOf(key) == getRateLimit(CHOOSE caller \in RateCallers : getRateLimitKey(caller) = key)

RECURSIVE admittedIn(_, _, _)
\* the requests of key admitted in the ticks from..to
admittedIn(key, from, to) ==
    IF from > to THEN 0 ELSE admitted[key][from] + admittedIn(key, from + 1, to)

\* C31: for every rate-limit key and every interval of length windowMs, the
\* requests admitted in the interval are at most the limit of the key.
C31_SlidingWindow ==
    \A key \in RateKeys, from \in 0..MaxTime :
        admittedIn(key, from, Min(from + windowMs - 1, MaxTime)) <= limitOf(key)

----------------------------------------------------------------------------
\* SpecKeys: api/services/apiKey.ts, its functions under concurrent callers.
\* The id of a key is its position in the table; its keyHash is one to one
\* with it.

KeyIds == 1..Len(apiKeys)

\* validateApiKey has returned null, rotateApiKey has returned null
Null == [status |-> "null"]

\* ApiKey.create of createApiKey: the row; from (ghost) is the key whose
\* rotation created it, 0 for a key that createApiKey was called for directly
newApiKey(userDid, tier, expiresAt, from) ==
    [userDid |-> userDid, tier |-> tier, status |-> "active", expiresAt |-> expiresAt,
     from |-> from]

\* mutant: the findOne of validateApiKey without status: 'active'
findByHashAnyStatus(rows, id) == IF id \in 1..Len(rows) THEN {id} ELSE {}

\* ApiKey.findOne({where: {keyHash, status: 'active'}})
findByHash(rows, id) == {k \in 1..Len(rows) : k = id /\ rows[k].status = "active"}

\* ApiKey.findOne({where: {id, userDid, status: 'active'}})
findActiveOf(rows, id, userDid) ==
    {k \in 1..Len(rows) : k = id /\ rows[k].userDid = userDid /\ rows[k].status = "active"}

freeKeyCall(c) == keyCall[c].pc = "idle" /\ \A b \in KeyCalls : b < c => keyCall[b].pc # "idle"

\* createApiKey({userDid, tier, expiresAt})
CallCreateApiKey(userDid, tier, expiresAt) ==
    /\ Len(apiKeys) < MaxKeys
    /\ apiKeys' = Append(apiKeys, newApiKey(userDid, tier, expiresAt, 0))
    /\ UNCHANGED <<intervals, rateVars, keyCall, usage, task, holders, meter, req, gatewayVars, returned, schedVars, rolledBack, response>>

\* validateApiKey(key) up to the return of its findOne
CallValidateApiKey(c, id) ==
    /\ freeKeyCall(c)
    /\ IF findByHash(apiKeys, id) = {}
       THEN /\ returned' = [fn |-> "validateApiKey", id |-> id, value |-> Null]
            /\ UNCHANGED keyCall
       ELSE /\ keyCall' = [keyCall EXCEPT ![c] = [IdleKeyCall EXCEPT !.op = "validate", !.pc = "found",
                                                                    !.id = id, !.record = apiKeys[id]]]
            /\ UNCHANGED returned
    /\ UNCHANGED <<intervals, rateVars, apiKeys, usage, task, holders, meter, req, gatewayVars, schedVars, rolledBack, response>>

\* validateApiKey from its check of expiresAt to its return (lastUsedAt, which
\* nothing reads, is no field of the rows here)
ValidateReturn(c) ==
    /\ keyCall[c].op = "validate"
    /\ keyCall[c].pc = "found"
    /\ LET id == keyCall[c].id
           record == keyCall[c].record
       IN IF record.expiresAt # NoExpiry /\ record.expiresAt < now
          THEN /\ apiKeys' = [apiKeys EXCEPT ![id].status = "expired"]
               /\ returned' = [fn |-> "validateApiKey", id |-> id, value |-> Null]
          ELSE /\ UNCHANGED apiKeys
               /\ returned' = [fn |-> "validateApiKey", id |-> id, value |-> record]
    /\ keyCall' = [keyCall EXCEPT ![c] = IdleKeyCall]
    /\ UNCHANGED <<intervals, rateVars, usage, task, holders, meter, req, gatewayVars, schedVars, rolledBack, response>>

\* revokeApiKey(id, userDid)
CallRevokeApiKey(id, userDid) ==
    /\ apiKeys' = [k \in KeyIds |-> IF k \in findActiveOf(apiKeys, id, userDid)
                                      THEN [apiKeys[k] EXCEPT !.status = "revoked"]
                                      ELSE apiKeys[k]]
    /\ UNCHANGED <<intervals, rateVars, keyCall, usage, task, holders, meter, req, gatewayVars, returned, schedVars, rolledBack, response>>

\* updateApiKey(id, userDid, {tier}): record.update writes the fields of
\* updateData, and the status of the row is none of them
CallUpdateApiKey(id, userDid, tier) ==
    /\ apiKeys' = [k \in KeyIds |-> IF k = id /\ apiKeys[k].userDid = userDid
                                      THEN [apiKeys[k] EXCEPT !.tier = tier]
                                      ELSE apiKeys[k]]
    /\ UNCHANGED <<intervals, rateVars, keyCall, usage, task, holders, meter, req, gatewayVars, returned, schedVars, rolledBack, response>>

\* rotateApiKey(id, userDid) up to the return of its findOne
CallRotateApiKey(c, id, userDid) ==
    /\ freeKeyCall(c)
    /\ IF findActiveOf(apiKeys, id, userDid) = {}
       THEN /\ returned' = [fn |-> "rotateApiKey", id |-> id, value |-> Null]
            /\ UNCHANGED keyCall
       ELSE /\ keyCall' = [keyCall EXCEPT ![c] = [IdleKeyCall EXCEPT !.op = "rotate", !.pc = "found",
                                                                    !.id = id, !.userDid = userDid,
                                                                    !.record = apiKeys[id]]]
            /\ UNCHANGED returned
    /\ UNCHANGED <<intervals, rateVars, apiKeys, usage, task, holders, meter, req, gatewayVars, schedVars, rolledBack, response>>

\* rotateApiKey: its createApiKey with the settings of the old record
RotateCreate(c) ==
    /\ keyCall[c].op = "rotate"
    /\ keyCall[c].pc = "found"
    /\ Len(apiKeys) < MaxKeys
    /\ apiKeys' = Append(apiKeys, newApiKey(keyCall[c].record.userDid, keyCall[c].record.tier,
                                            keyCall[c].record.expiresAt, keyCall[c].id))
    /\ keyCall' = [keyCall EXCEPT ![c].pc = "created", ![c].created = Len(apiKeys) + 1]
    /\ UNCHANGED <<intervals, rateVars, usage, task, holders, meter, req, gatewayVars, returned, schedVars, rolledBack, response>>

\* rotateApiKey: oldRecord.update({status: 'revoked'}), and its return
RotateRevoke(c) ==
    /\ keyCall[c].op = "rotate"
    /\ keyCall[c].pc = "created"
    /\ apiKeys' = [apiKeys EXCEPT ![keyCall[c].id].status = "revoked"]
    /\ returned' = [fn |-> "rotateApiKey", id |-> keyCall[c].id,
                    value |-> apiKeys[keyCall[c].created]]
    /\ keyCall' = [keyCall EXCEPT ![c] = IdleKeyCall]
    /\ UNCHANGED <<intervals, rateVars, usage, task, holders, meter, req, gatewayVars, schedVars, rolledBack, response>>

\* the expiry dates keys are created with
ExpiryDates == {NoExpiry, 1}

NextKeys ==
    \/ CallCreateApiKey("U1", "free", NoExpiry)
    \/ \E c \in KeyCalls, id \in 1..MaxKeys : CallValidateApiKey(c, id)
    \/ \E c \in KeyCalls : ValidateReturn(c)
    \/ \E id \in KeyIds, u \in Users : CallRevokeApiKey(id, u)
    \/ \E u \in Users : CallUpdateApiKey(1, u, "starter")
    \/ \E c \in KeyCalls, id \in KeyIds, u \in Users : CallRotateApiKey(c, id, u)
    \/ \E c \in KeyCalls : RotateCreate(c)
    \/ \E c \in KeyCalls : RotateRevoke(c)
    \/ Advance

\* a key of U1 has been created, with an expiry date or without
InitKeys ==
    /\ InitShared
    /\ started(initPayment(FALSE, TRUE, TRUE, TRUE))
    /\ \E expiresAt \in ExpiryDates : apiKeys = <<newApiKey("U1", "free", expiresAt, 0)>>

SpecKeys == InitKeys /\ [][NextKeys]_vars

\* C35: a key that is revoked or expired never becomes active again, whatever
\* is called; validateApiKey returns a record only of a key that its findOne
\* read as active and that is not past its expiresAt when it returns, and a
\* key it finds past its expiresAt is marked expired and null is returned.
C35_StatusIsMonotone ==
    /\ [][\A k \in KeyIds : apiKeys[k].status # "active" => apiKeys'[k].status # "active"]_vars
    /\ [][\A c \in KeyCalls, id \in 1..MaxKeys :
            (CallValidateApiKey(c, id) /\ (id \notin KeyIds \/ apiKeys[id].status # "active"))
               => keyCall' = keyCall /\ returned'.value = Null]_vars
    /\ [][\A c \in KeyCalls :
            (ValidateReturn(c) /\ returned'.value # Null)
               => /\ returned'.value.status = "active"
                  /\ returned'.value.expiresAt = NoExpiry \/ returned'.value.expiresAt >= now
                  /\ apiKeys' = apiKeys]_vars
    /\ [][\A c \in KeyCalls :
            (ValidateReturn(c) /\ keyCall[c].record.expiresAt # NoExpiry
                               /\ keyCall[c].record.expiresAt < now)
               => /\ returned'.value = Null
                  /\ apiKeys'[keyCall[c].id].status = "expired"]_vars

\* C35 witness: validateApiKey has marked a key expired, and another key,
\* revoked, was since updated and not found by validateApiKey.
C35_Witness ==
    /\ returned.fn = "validateApiKey"
    /\ returned.value = Null
    /\ returned.id \in KeyIds
    /\ apiKeys[returned.id].status = "revoked"
    /\ apiKeys[returned.id].tier = "starter"
    /\ \E k \in KeyIds : apiKeys[k].status = "expired"

\* C36: the keys that rotations of one key have created hold at most one
\* active key, and once rotateApiKey has returned a new key for a key, that
\* key is not active.
C36_RotationOneForOne ==
    /\ \A id \in KeyIds :
          Cardinality({k \in KeyIds : apiKeys[k].from = id /\ apiKeys[k].status = "active"}) <= 1
    /\ (returned.fn = "rotateApiKey" /\ returned.value # Null)
          => apiKeys[returned.id].status # "active"

====
